---- MODULE Spec2Model ----
(***************************************************************************)
(* Verification model of five subsystems of vtcode:                        *)
(*   - the conversation context trimmer (src/src/agent/runloop/context.rs) *)
(*   - the patch applicator (vtcode-core/src/tools/editing/patch/...)      *)
(*   - the tool execution pipeline (runloop/unified/tool_pipeline.rs)      *)
(*   - the tool output decoder (process_tool_output)                       *)
(*   - the LLM response cache (vtcode-core/src/llm/cache.rs)               *)
(* Each subsystem has its own specification (TrimSpec and SessionSpec,     *)
(* PatchSpec and PatchCoarseSpec, PipeSpec and PipeLiveSpec, DecodeSpec,   *)
(* LlmSpec); the variables of the other subsystems stay at their idle      *)
(* values.                                                                 *)
(***************************************************************************)
EXTENDS Integers, Sequences, FiniteSets, TLC

VARIABLES
    \* ---- context trimmer ----
    history,      \* Vec<uni::Message>, the history being trimmed
    before,       \* the history as it was when the last strategy was called
    config,       \* ContextTrimConfig
    analyzer,     \* TRUE iff a TreeSitterAnalyzer is supplied (Option is Some)
    lastOp,       \* which strategy ran last ("none" before the first call)
    removed,      \* the count the last strategy returned
    \* ---- patch applicator ----
    pfs,          \* the workspace: path -> node, for the paths that exist
    pfs0,         \* the workspace as it was when apply was called
    ops,          \* the operation list handed to apply
    plan,         \* Vec<PreparedOperation> built by plan_operations
    ppc,          \* where apply is: "plan", "execute", "rollback", "commit", "done"
    nextOp,       \* position of the next prepared operation to execute
    executed,     \* positions of the operations the executor was called for, in order
    journal,      \* OperationJournal::applied
    results,      \* the Vec<String> of annotated details
    presult,      \* what apply returned (meaningful when ppc = "done")
    origErr,      \* the failing operation's error while rolling back
    rollbackErr,  \* rollback_error of rollback_all ("" stands for None)
    clock,        \* the clock reading the next temporary_path call gets
    resolution,   \* how far the clock advances from one reading to the next
    faults,       \* injected I/O failures so far
    \* ---- tool execution pipeline ----
    pc,           \* where execute_tool_with_progress is
    cancelBit,    \* CtrlCState: cancel requested
    exitBit,      \* CtrlCState: exit requested
    permit,       \* Notify holds a stored permit (notify_one with no waiter)
    woken,        \* the select's Notified future has been notified
    notifyKind,   \* which Notify call the UI thread makes: "one" or "waiters"
    ceiling,      \* timeout_policy.ceiling_for(category): NoCeiling or ticks
    warnPct,      \* warning_fraction, in percent
    hang,         \* TRUE iff the tool future never completes
    toolState,    \* the current attempt's exec_future: "none", "running", "ready"
    toolResult,   \* what the tool returned: "ok" or "err" ("none" before it completes)
    now,          \* the clock, in ticks
    prepDeadline, \* when the preparation sleep ends
    attempts,     \* iterations of 'outer begun (the current token's number)
    invocations,  \* how many times the tool has been invoked
    notifies,     \* signals the UI thread has sent
    raceNotifies, \* bit-less notifications that arrived while the select was waiting
    softRestarts, \* times the select took `continue 'outer`
    cancelledTokens, \* the tokens token.cancel() was called on
    raceStart,    \* when the current attempt's timers were created
    warningTimer, \* deadline of warning_timer, NoTimer for None
    warningEmitted, \* warning_emitted
    warnings,     \* warning messages emitted
    polled,       \* the current select has been polled and is waiting
    status,       \* the ToolExecutionStatus returned ("none" while running)
    statusAttempt, \* the attempt that produced the status
    doneAt,       \* the clock when the status was produced
    cancelEarly,  \* the cancel bit was set before the tool future resolved
    progressLog,  \* the percentages passed to set_progress, in order
    lastWinner,   \* the branch that completed the last select (0: none yet)
    \* output decoding (process_tool_output)
    toolOutput,   \* the JSON value the tool returned
    decodedStatus, \* the ToolExecutionStatus made of it
    \* ---- semantic score cache (context trimmer) ----
    scoreCache,   \* HashMap<u64, u8> handed to enforce_unified_context_window
    semantic_scores, \* the scores the last enforce call sorted by
    \* ---- LLM response cache ----
    llmCache,     \* DashMap<String, CacheEntry>: key -> entry, for the keys present
    llmConfig,    \* LLMCacheConfig
    llmNow,       \* Instant::now(), in ticks
    llmPc,        \* "ready" between calls, "blocked" when generate cannot return
    lastCall      \* what the last generate call was given and what it did

trimVars == <<history, before, config, analyzer, lastOp, removed>>
patchVars == <<pfs, pfs0, ops, plan, ppc, nextOp, executed, journal, results,
               presult, origErr, rollbackErr, clock, resolution, faults>>
pipeVars == <<pc, cancelBit, exitBit, permit, woken, notifyKind, ceiling, warnPct, hang,
              toolState, toolResult, now, prepDeadline, attempts, invocations, notifies,
              raceNotifies, softRestarts, cancelledTokens, raceStart, warningTimer,
              warningEmitted, warnings, polled, status, statusAttempt, doneAt, cancelEarly,
              progressLog, lastWinner>>
decodeVars == <<toolOutput, decodedStatus>>
scoreVars == <<scoreCache, semantic_scores>>
llmVars == <<llmCache, llmConfig, llmNow, llmPc, lastCall>>
vars == <<trimVars, patchVars, pipeVars, decodeVars, scoreVars, llmVars>>

(***************************************************************************)
(*                       GENERAL HELPERS                                   *)
(***************************************************************************)
Min(a, b) == IF a <= b THEN a ELSE b
Max(a, b) == IF a >= b THEN a ELSE b
\* usize::saturating_sub
SatSub(a, b) == IF a >= b THEN a - b ELSE 0
\* usize::div_ceil
DivCeil(a, b) == (a + b - 1) \div b
\* Ord::clamp
Clamp(x, lo, hi) == IF x < lo THEN lo ELSE IF x > hi THEN hi ELSE x

RECURSIVE SetToDescSeq_ascending(_)
\* (mutant of SetToDescSeq: the iteration runs oldest first)
SetToDescSeq_ascending(S) ==
    IF S = {} THEN <<>>
    ELSE LET m == CHOOSE x \in S : \A y \in S : x <= y
         IN <<m>> \o SetToDescSeq_ascending(S \ {m})

RECURSIVE SetToDescSeq(_)
\* the elements of a finite set of integers, largest first ((0..n).rev() filtered)
SetToDescSeq(S) ==
    IF S = {} THEN <<>>
    ELSE LET m == CHOOSE x \in S : \A y \in S : y <= x
         IN <<m>> \o SetToDescSeq(S \ {m})

\* Vec::retain with an index predicate: the subsequence of s at the positions in Keep
RECURSIVE RetainFrom(_, _, _)
RetainFrom(s, Keep, i) ==
    IF i > Len(s) THEN <<>>
    ELSE (IF i \in Keep THEN <<s[i]>> ELSE <<>>) \o RetainFrom(s, Keep, i + 1)

RECURSIVE RetainBackFrom(_, _, _)
RetainBackFrom(s, Keep, i) ==
    IF i < 1 THEN <<>>
    ELSE (IF i \in Keep THEN <<s[i]>> ELSE <<>>) \o RetainBackFrom(s, Keep, i - 1)
\* (mutant of Retain: the survivors come out last first)
Retain_reversed(s, Keep) == RetainBackFrom(s, Keep, Len(s))

Retain(s, Keep) == RetainFrom(s, Keep, 1)

(***************************************************************************)
(*                          JSON VALUES                                    *)
(* serde_json::Value: strings are sequences of characters, a number keeps  *)
(* serde_json's representation (PosInt for u64, NegInt for negative i64,   *)
(* Float for f64), an object is a function from its keys to values.        *)
(***************************************************************************)
JNull == [t |-> "null"]
JBool(b) == [t |-> "bool", v |-> b]
\* wide: a PosInt above i64::MAX
JNumber(n, v, wide) == [t |-> "number", n |-> n, v |-> v, wide |-> wide]
JString(chars) == [t |-> "string", v |-> chars]
JArray(items) == [t |-> "array", v |-> items]
JObject(fields) == [t |-> "object", v |-> fields]

\* Option: None and Some(x)
None == [some |-> FALSE]
Some(x) == [some |-> TRUE, v |-> x]

\* Value::get(key): the member of an object, None for any other value
Get(value, key) ==
    IF value.t = "object" /\ key \in DOMAIN value.v THEN Some(value.v[key]) ELSE None

\* Value::as_i64: integers that fit an i64
as_i64(value) ==
    IF value.t = "number" /\ value.n \in {"PosInt", "NegInt"} /\ ~value.wide
    THEN Some(value.v) ELSE None
\* Value::as_str, Value::as_array, Value::as_bool
as_str(value) == IF value.t = "string" THEN Some(value.v) ELSE None
as_array(value) == IF value.t = "array" THEN Some(value.v) ELSE None
as_bool(value) == IF value.t = "bool" THEN Some(value.v) ELSE None

\* Option::unwrap_or
UnwrapOr(opt, default) == IF opt.some THEN opt.v ELSE default

Whitespace == {" ", "\t", "\n"}

RECURSIVE TrimStart(_)
TrimStart(chars) ==
    IF chars # <<>> /\ Head(chars) \in Whitespace THEN TrimStart(Tail(chars)) ELSE chars

RECURSIVE TrimEnd(_)
TrimEnd(chars) ==
    IF chars # <<>> /\ chars[Len(chars)] \in Whitespace
    THEN TrimEnd(SubSeq(chars, 1, Len(chars) - 1)) ELSE chars

\* (mutant of trim: the string is taken as it is)
trim_nothing(chars) == chars

\* str::trim
trim(chars) == TrimEnd(TrimStart(chars))

RECURSIVE FilterMapStrings(_)
\* files.iter().filter_map(|entry| entry.as_str().map(|s| s.to_string()))
FilterMapStrings(items) ==
    IF items = <<>> THEN <<>>
    ELSE LET rest == FilterMapStrings(Tail(items))
         IN IF as_str(Head(items)).some THEN <<as_str(Head(items)).v>> \o rest ELSE rest

NoStatus == [kind |-> "none"]

\* process_tool_output
process_tool_output(value) ==
    LET \* .get(key).and_then(|value| value.as_..())
        code == Get(value, "exit_code")
        exit_code == UnwrapOr(IF code.some THEN as_i64(code.v) ELSE None, 0)
        out == Get(value, "stdout")
        text == IF out.some THEN as_str(out.v) ELSE None
        trimmed == IF text.some THEN Some(trim(text.v)) ELSE None
        list == Get(value, "modified_files")
        files == IF list.some THEN as_array(list.v) ELSE None
        more == Get(value, "has_more")
    IN [kind |-> "Success",
        output |-> value,
        stdout |-> IF trimmed.some /\ trimmed.v # <<>> THEN trimmed ELSE None,
        modified_files |-> IF files.some THEN FilterMapStrings(files.v) ELSE <<>>,
        command_success |-> (exit_code = 0),
        has_more |-> UnwrapOr(IF more.some THEN as_bool(more.v) ELSE None, FALSE)]

(***************************************************************************)
(*                       IDLE SUBSYSTEMS                                   *)
(***************************************************************************)
\* a workspace with nothing below its root
EmptyWorkspace == <<>>
NoResult == [ok |-> FALSE, phase |-> "running", err |-> "", rollback |-> ""]

TrimIdle ==
    /\ history = <<>> /\ before = <<>> /\ lastOp = "none" /\ removed = 0
    /\ analyzer = FALSE
    /\ config = [max_tokens |-> 0, trim_to_percent |-> 50, preserve_recent_turns |-> 0,
                 semantic_compression |-> FALSE, tool_aware_retention |-> FALSE,
                 max_structural_depth |-> 0, preserve_recent_tools |-> 0]

DecodeIdle == toolOutput = JNull /\ decodedStatus = NoStatus

\* an empty HashMap, as a function with no key
EmptyMap == <<>>
ScoreIdle == scoreCache = EmptyMap /\ semantic_scores = <<>>

NoCall == [kind |-> "none"]
LlmIdle ==
    /\ llmCache = EmptyMap /\ llmNow = 0 /\ llmPc = "idle" /\ lastCall = NoCall
    /\ llmConfig = [enabled |-> FALSE, max_entries |-> 0, ttl |-> 0]

PatchIdle ==
    /\ pfs = EmptyWorkspace /\ pfs0 = EmptyWorkspace /\ ops = <<>> /\ plan = <<>>
    /\ ppc = "idle" /\ nextOp = 1 /\ executed = <<>> /\ journal = <<>> /\ results = <<>>
    /\ presult = NoResult /\ origErr = "" /\ rollbackErr = "" /\ clock = 1 /\ resolution = 1 /\ faults = 0

\* Option::None of the ceiling and of a timer
NoCeiling == -1
NoTimer == -1

PipeIdle ==
    /\ pc = "idle" /\ cancelBit = FALSE /\ exitBit = FALSE /\ permit = FALSE
    /\ woken = FALSE /\ notifyKind = "one" /\ ceiling = NoCeiling /\ warnPct = 0
    /\ hang = FALSE /\ toolState = "none" /\ toolResult = "none" /\ now = 0
    /\ prepDeadline = 0 /\ attempts = 0 /\ invocations = 0 /\ notifies = 0
    /\ raceNotifies = 0 /\ softRestarts = 0 /\ cancelledTokens = {} /\ raceStart = 0
    /\ warningTimer = NoTimer /\ warningEmitted = FALSE /\ warnings = 0
    /\ polled = FALSE /\ status = "none" /\ statusAttempt = 0 /\ doneAt = 0
    /\ cancelEarly = FALSE /\ progressLog = <<>> /\ lastWinner = 0

(***************************************************************************)
(*                       CONTEXT TRIMMER                                   *)
(* Positions are 1-based here; the Rust index i is position i + 1.         *)
(***************************************************************************)

\* vtcode_core::config::constants::context (the constants module is not part
\* of the sources at hand; the values are the crate's defaults)
CHAR_PER_TOKEN_APPROX == 3
MIN_TRIM_RATIO_PERCENT == 60
MAX_TRIM_RATIO_PERCENT == 90
MIN_PRESERVE_RECENT_TURNS == 6
AGGRESSIVE_PRESERVE_RECENT_TURNS == 8
DEFAULT_MAX_STRUCTURAL_DEPTH == 3

\* MessageRole::as_generic_str().len()
RoleLen(role) ==
    CASE role = "system" -> 6
      [] role = "user" -> 4
      [] role = "assistant" -> 9
      [] role = "tool" -> 4

\* Message::is_tool_response
is_tool_response(m) == m.role = "tool"
\* Message::has_tool_calls (None and Some(empty) both count as no calls)
has_tool_calls(m) == m.tool_calls # <<>>

RECURSIVE ToolCallChars(_, _)
\* sum over tool calls of id + call_type + function.name + function.arguments lengths
ToolCallChars(calls, i) ==
    IF i > Len(calls) THEN 0
    ELSE calls[i].id_len + calls[i].type_len + calls[i].name_len + calls[i].args_len
         + ToolCallChars(calls, i + 1)

approximate_unified_message_tokens(m) ==
    DivCeil(m.content_len + RoleLen(m.role) + ToolCallChars(m.tool_calls, 1)
            + (IF m.tool_call_id = "none" THEN 0 ELSE m.tool_call_id_len),
            CHAR_PER_TOKEN_APPROX)

RECURSIVE TotalTokensFrom(_, _)
TotalTokensFrom(h, i) ==
    IF i > Len(h) THEN 0
    ELSE approximate_unified_message_tokens(h[i]) + TotalTokensFrom(h, i + 1)
\* history.iter().map(approximate_unified_message_tokens).sum()
TotalTokens(h) == TotalTokensFrom(h, 1)

\* ContextTrimConfig::target_tokens
target_tokens(cfg) ==
    (cfg.max_tokens
       * Clamp(cfg.trim_to_percent, MIN_TRIM_RATIO_PERCENT, MAX_TRIM_RATIO_PERCENT))
    \div 100

\* language_hint_to_support: the hints that name a supported language
KnownHints ==
    {"rust", "rs", "python", "py", "javascript", "js", "typescript", "ts", "tsx",
     "go", "golang", "java", "bash", "sh", "shell", "swift"}
language_hint_to_support(hint) == IF hint \in KnownHints THEN Some(hint) ELSE None

\* estimate_scope_depth: the scope string is split at ':', '.' and '#'
\* (scope is the sequence of segments the split yields, "" for an empty
\* one, <<>> for no scope) and the non-empty segments are counted
estimate_scope_depth(scope) == Cardinality({i \in 1..Len(scope) : scope[i] # ""})

\* the weight of a symbol kind in score_symbols
SymbolWeight(kind) ==
    CASE kind \in {"Function", "Method"} -> 6
      [] kind \in {"Class", "Struct", "Interface", "Trait"} -> 8
      [] kind \in {"Module", "Type"} -> 4
      [] kind \in {"Variable", "Constant"} -> 2
      [] kind = "Import" -> 1

RECURSIVE score_symbols(_, _, _)
\* score_symbols, from symbol i on
score_symbols(symbols, i, cfg) ==
    IF i > Len(symbols) THEN 0
    ELSE (IF estimate_scope_depth(symbols[i].scope) > cfg.max_structural_depth
          THEN 0 ELSE SymbolWeight(symbols[i].kind))
         + score_symbols(symbols, i + 1, cfg)

\* what one pass of the `for block in code_blocks` loop adds to total_score;
\* a block records what the analyzer makes of its snippet: blank (nothing
\* but whitespace), the language hint of the fence ("" for none), whether
\* detect_language_from_content knows the language, whether parse and
\* extract_symbols succeed, and the symbols
block_contribution(block, cfg) ==
    IF block.blank THEN 0
    ELSE IF ~language_hint_to_support(block.hint).some /\ ~block.detectable THEN 0
    ELSE IF ~block.parses THEN 0
    ELSE LET symbols == IF block.extracts THEN block.symbols ELSE <<>>
             block_score == score_symbols(symbols, 1, cfg)
         IN IF block_score > 0 THEN block_score ELSE 1

RECURSIVE total_score(_, _, _)
total_score(code_blocks, i, cfg) ==
    IF i > Len(code_blocks) THEN 0
    ELSE block_contribution(code_blocks[i], cfg) + total_score(code_blocks, i + 1, cfg)

\* compute_semantic_score: m.blocks are the fenced blocks extract_code_blocks
\* finds in the text; without any, the whole text (m.text) is taken as one
\* block with no hint if detect_language_from_content knows its language
compute_semantic_score(m, cfg) ==
    LET code_blocks ==
            IF m.blocks # <<>> THEN m.blocks
            ELSE IF m.text.detectable THEN <<[m.text EXCEPT !.hint = ""]>>
            ELSE <<>>
        total == total_score(code_blocks, 1, cfg)
    IN IF code_blocks = <<>> THEN 0
       ELSE IF total = 0 THEN 0
       ELSE LET base_bonus ==
                    (IF is_tool_response(m) \/ has_tool_calls(m) THEN 2 ELSE 0)
                    + (IF m.origin_tool /\ cfg.tool_aware_retention THEN 1 ELSE 0)
            IN Min(total + base_bonus, 255)

\* compute_semantic_scores (no score cache)
compute_semantic_scores(h, hasAnalyzer, cfg) ==
    IF ~cfg.semantic_compression \/ h = <<>> \/ ~hasAnalyzer
    THEN [i \in 1..Len(h) |-> 0]
    ELSE [i \in 1..Len(h) |-> compute_semantic_score(h[i], cfg)]

\* message_semantic_hash: the hash of role, text, tool_call_id (when set)
\* and each tool call's id, name and arguments; m.uid stands for the text
message_semantic_hash(m) ==
    <<m.role, m.uid,
      IF m.tool_call_id = "none" THEN <<>> ELSE <<m.tool_call_id>>,
      [c \in 1..Len(m.tool_calls) |->
          <<m.tool_calls[c].id, m.tool_calls[c].name_len, m.tool_calls[c].args_len>>]>>

RECURSIVE CachedScoresFrom(_, _, _, _, _)
\* the loop over the history of compute_semantic_scores with a score cache:
\* the scores and the cache after it
CachedScoresFrom(h, i, scores, cache_map, cfg) ==
    IF i > Len(h) THEN [scores |-> scores, cache |-> cache_map]
    ELSE LET cache_key == message_semantic_hash(h[i])
         IN IF cache_key \in DOMAIN cache_map
            THEN CachedScoresFrom(h, i + 1, Append(scores, cache_map[cache_key]),
                                  cache_map, cfg)
            ELSE LET computed == compute_semantic_score(h[i], cfg)
                 IN CachedScoresFrom(h, i + 1, Append(scores, computed),
                                     [k \in DOMAIN cache_map \cup {cache_key} |->
                                         IF k = cache_key THEN computed ELSE cache_map[k]],
                                     cfg)

\* compute_semantic_scores with Some(cache)
compute_semantic_scores_cached(h, hasAnalyzer, cache_map, cfg) ==
    IF ~cfg.semantic_compression \/ h = <<>> \/ ~hasAnalyzer
    THEN [scores |-> [i \in 1..Len(h) |-> 0], cache |-> cache_map]
    ELSE CachedScoresFrom(h, 1, <<>>, cache_map, cfg)

RECURSIVE SortCandidates_by_index(_, _)
\* (mutant of SortCandidates: the scores are ignored, oldest first)
SortCandidates_by_index(S, scores) ==
    IF S = {} THEN <<>>
    ELSE LET m == CHOOSE i \in S : \A j \in S : i <= j
         IN <<m>> \o SortCandidates_by_index(S \ {m}, scores)

RECURSIVE SortCandidates(_, _)
\* sort_by(score ascending, then index ascending)
SortCandidates(S, scores) ==
    IF S = {} THEN <<>>
    ELSE LET m == CHOOSE i \in S :
                    \A j \in S : scores[i] < scores[j]
                                 \/ (scores[i] = scores[j] /\ i <= j)
         IN <<m>> \o SortCandidates(S \ {m}, scores)

\* (mutant of BudgetMet: the comparison turned around)
BudgetMet_inverted(total, cfg) == total >= cfg.max_tokens

\* (mutant of BudgetMet: the loop runs on until the target is reached)
BudgetMet_at_target(total, cfg) == total <= target_tokens(cfg)

\* the loop guard of both eviction loops: `if total_tokens <= config.max_tokens { break; }`
BudgetMet(total, cfg) == total <= cfg.max_tokens

RECURSIVE EvictLoop(_, _, _, _, _, _)
\* `for index in candidates { ... }` of enforce_unified_context_window:
\* returns the total and the removal set after the loop
EvictLoop(cands, k, total, removal, toks, cfg) ==
    IF k > Len(cands) THEN [total |-> total, removal |-> removal]
    ELSE IF BudgetMet(total, cfg) THEN [total |-> total, removal |-> removal]
    ELSE LET idx == cands[k]
             t2 == SatSub(total, toks[idx])
             r2 == removal \cup {idx}
         IN IF t2 <= target_tokens(cfg)
            THEN [total |-> t2, removal |-> r2]
            ELSE EvictLoop(cands, k + 1, t2, r2, toks, cfg)

\* preserve_boundary = history.len().saturating_sub(preserve_recent_turns)
preserve_boundary(len, cfg) == SatSub(len, cfg.preserve_recent_turns)

\* (mutant of EarlyCandidates: the oldest message is not a candidate)
EarlyCandidates_skips_first(len, cfg) == 2..preserve_boundary(len, cfg)

\* (0..preserve_boundary)
EarlyCandidates(len, cfg) == 1..preserve_boundary(len, cfg)

\* (mutant of ExtendedCandidates: the range runs to the end of the history)
ExtendedCandidates_to_end(len, cfg) == (preserve_boundary(len, cfg) + 1)..len

\* (preserve_boundary..last_index) with last_index = len - 1
ExtendedCandidates(len, cfg) == (preserve_boundary(len, cfg) + 1)..(len - 1)

\* (mutant of RunsExtended: the preserved region is never touched)
RunsExtended_never(total, len, cfg) == FALSE

\* whether the second loop runs: `total_tokens > config.max_tokens && last_index > 0`
RunsExtended(total, len, cfg) == total > cfg.max_tokens /\ len - 1 > 0

\* the removal set enforce_unified_context_window builds ({} on the early
\* returns), given the semantic scores
EnforceRemovalSetWith(h, cfg, scores) ==
    IF h = <<>> THEN {}
    ELSE LET toks == [i \in 1..Len(h) |-> approximate_unified_message_tokens(h[i])]
             total == TotalTokens(h)
         IN IF total <= cfg.max_tokens THEN {}
            ELSE IF Len(h) = 1 THEN {}
            ELSE LET early == SortCandidates(EarlyCandidates(Len(h), cfg), scores)
                     a == EvictLoop(early, 1, total, {}, toks, cfg)
                     ext == SortCandidates(ExtendedCandidates(Len(h), cfg), scores)
                     b == IF RunsExtended(a.total, Len(h), cfg)
                          THEN EvictLoop(ext, 1, a.total, a.removal, toks, cfg)
                          ELSE a
                 IN b.removal

\* the removal set when no score cache is passed
EnforceRemovalSet(h, cfg, hasAnalyzer) ==
    EnforceRemovalSetWith(h, cfg, compute_semantic_scores(h, hasAnalyzer, cfg))

\* whether the call gets as far as compute_semantic_scores (line 166)
ScoresComputed(h, cfg) == h # <<>> /\ TotalTokens(h) > cfg.max_tokens

\* enforce_unified_context_window: the surviving history
enforce_unified_context_window(h, cfg, hasAnalyzer) ==
    Retain(h, (1..Len(h)) \ EnforceRemovalSet(h, cfg, hasAnalyzer))

\* (mutant of keep_from: off by one)
keep_from_off_by_one(len, cfg) == SatSub(len + 1, cfg.preserve_recent_turns)

\* keep_from = history.len().saturating_sub(config.preserve_recent_turns)
keep_from(len, cfg) == SatSub(len, cfg.preserve_recent_turns)

RECURSIVE InsertUntil(_, _, _, _)
\* `for index in ... { retained.insert(index); if retained.len() >= n { break; } }`
InsertUntil(seq, k, retained, n) ==
    IF k > Len(seq) THEN retained
    ELSE LET r2 == retained \cup {seq[k]}
         IN IF Cardinality(r2) >= n THEN r2 ELSE InsertUntil(seq, k + 1, r2, n)

\* tool_retention_indices of prune_unified_tool_responses ({} stands for None)
tool_retention_indices(h, cfg) ==
    IF cfg.tool_aware_retention /\ cfg.preserve_recent_tools > 0
    THEN LET responses == SetToDescSeq({i \in 1..Len(h) : is_tool_response(h[i])})
             calls == SetToDescSeq({i \in 1..Len(h) : has_tool_calls(h[i])})
             r1 == InsertUntil(responses, 1, {}, cfg.preserve_recent_tools)
         IN IF Cardinality(r1) < cfg.preserve_recent_tools
            THEN InsertUntil(calls, 1, r1, cfg.preserve_recent_tools)
            ELSE r1
    ELSE {}

\* (mutant of PruneKeepSet: the tool retention set is not consulted)
PruneKeepSet_no_retention(h, cfg) ==
    IF h = <<>> \/ keep_from(Len(h), cfg) = 0 THEN 1..Len(h)
    ELSE {i \in 1..Len(h) :
            \/ i > keep_from(Len(h), cfg)
            \/ ~(is_tool_response(h[i]) \/ has_tool_calls(h[i]))}

\* the positions prune_unified_tool_responses keeps
PruneKeepSet(h, cfg) ==
    IF h = <<>> \/ keep_from(Len(h), cfg) = 0 THEN 1..Len(h)
    ELSE {i \in 1..Len(h) :
            \/ i > keep_from(Len(h), cfg)
            \/ ~(is_tool_response(h[i]) \/ has_tool_calls(h[i]))
            \/ i \in tool_retention_indices(h, cfg)}

\* (mutant of prune_unified_tool_responses: the survivors are collected
\* newest first)
prune_unified_tool_responses_newest_first(h, cfg) ==
    Retain_reversed(h, PruneKeepSet(h, cfg))

prune_unified_tool_responses(h, cfg) == Retain(h, PruneKeepSet(h, cfg))

\* the value prune_unified_tool_responses returns: 0 on the early returns,
\* else `removed`, incremented once per message the retain closure rejects
prune_removed(h, cfg) ==
    IF h = <<>> \/ keep_from(Len(h), cfg) = 0 THEN 0
    ELSE Cardinality((1..Len(h)) \ PruneKeepSet(h, cfg))

\* (mutant of keep_turns: preserve_recent_turns is taken as configured)
keep_turns_unclamped(len, cfg) == Min(cfg.preserve_recent_turns, len)

\* (mutant of keep_turns: one message fewer is kept)
keep_turns_one_fewer(len, cfg) ==
    SatSub(Min(Clamp(cfg.preserve_recent_turns, MIN_PRESERVE_RECENT_TURNS,
                     AGGRESSIVE_PRESERVE_RECENT_TURNS), len), 1)

\* keep_turns of apply_aggressive_trim_unified
keep_turns(len, cfg) ==
    Min(Clamp(cfg.preserve_recent_turns, MIN_PRESERVE_RECENT_TURNS,
              AGGRESSIVE_PRESERVE_RECENT_TURNS), len)

\* apply_aggressive_trim_unified: history.drain(0..remove)
apply_aggressive_trim_unified(h, cfg) ==
    IF h = <<>> THEN h
    ELSE LET remove == SatSub(Len(h), keep_turns(Len(h), cfg))
         IN IF remove = 0 THEN h ELSE SubSeq(h, remove + 1, Len(h))

(***************************************************************************)
(* Inputs of the trimmer specification                                     *)
(***************************************************************************)
MaxHistory == 3

\* message shapes as the constructors of llm/types.rs build them; uid stands
\* for the text of the message (what distinguishes "assistant step 3" from
\* "assistant step 4"), content_len for its length
NoCalls == <<>>
\* what the analyzer makes of a text: no code in it; a fenced rust block
\* with one top-level function; a snippet of a known language without symbols
NoCode ==
    [blank |-> FALSE, hint |-> "", detectable |-> FALSE, parses |-> FALSE,
     extracts |-> FALSE, symbols |-> <<>>]
RustFunction ==
    [blank |-> FALSE, hint |-> "rust", detectable |-> TRUE, parses |-> TRUE,
     extracts |-> TRUE, symbols |-> <<[kind |-> "Function", scope |-> <<>>]>>]
BareSnippet ==
    [blank |-> FALSE, hint |-> "", detectable |-> TRUE, parses |-> TRUE,
     extracts |-> TRUE, symbols |-> <<>>]
OneCall == <<[id |-> "call_1", id_len |-> 6, type_len |-> 8, name_len |-> 6, args_len |-> 2]>>

PlainUser ==
    [role |-> "user", content_len |-> 4, tool_calls |-> NoCalls,
     tool_call_id |-> "none", tool_call_id_len |-> 0, origin_tool |-> FALSE,
     blocks |-> <<>>, text |-> NoCode]
PlainSystem ==
    [role |-> "system", content_len |-> 20, tool_calls |-> NoCalls,
     tool_call_id |-> "none", tool_call_id_len |-> 0, origin_tool |-> FALSE,
     blocks |-> <<>>, text |-> NoCode]

\* the shapes short histories are built from: plain text, text with code,
\* a tool call, a tool response
MessageShapes ==
    { [role |-> "assistant", content_len |-> 17, tool_calls |-> NoCalls,
       tool_call_id |-> "none", tool_call_id_len |-> 0, origin_tool |-> FALSE,
       blocks |-> <<>>, text |-> NoCode],
      [role |-> "assistant", content_len |-> 48, tool_calls |-> NoCalls,
       tool_call_id |-> "none", tool_call_id_len |-> 0, origin_tool |-> FALSE,
       blocks |-> <<RustFunction>>, text |-> NoCode],
      [role |-> "assistant", content_len |-> 19, tool_calls |-> OneCall,
       tool_call_id |-> "none", tool_call_id_len |-> 0, origin_tool |-> FALSE,
       blocks |-> <<>>, text |-> NoCode],
      [role |-> "tool", content_len |-> 12, tool_calls |-> NoCalls,
       tool_call_id |-> "call_1", tool_call_id_len |-> 6, origin_tool |-> TRUE,
       blocks |-> <<>>, text |-> BareSnippet] }

WithUid(shape, u) ==
    [uid |-> u, role |-> shape.role, content_len |-> shape.content_len,
     tool_calls |-> shape.tool_calls, tool_call_id |-> shape.tool_call_id,
     tool_call_id_len |-> shape.tool_call_id_len, origin_tool |-> shape.origin_tool,
     blocks |-> shape.blocks, text |-> shape.text]

Histories ==
    UNION { { [i \in 1..n |-> WithUid(f[i], i)] : f \in [1..n -> MessageShapes] }
            : n \in 1..MaxHistory }

\* histories long enough for apply_aggressive_trim_unified to drop a prefix
\* (more than MIN_PRESERVE_RECENT_TURNS messages): up to MaxHistory - 1 tool
\* payloads (calls and responses) followed by plain system and user
\* messages, so that the cut falls between the tool payloads
PaddingLen == MIN_PRESERVE_RECENT_TURNS - 1
\* the k-th padding message: a system message, then user messages
Padding(k) == IF k = 1 THEN PlainSystem ELSE PlainUser

ToolPayloads == {m \in MessageShapes : is_tool_response(m) \/ has_tool_calls(m)}

LongHistoriesOf(pad, sizes) ==
    UNION { { [i \in 1..(n + pad) |->
                 WithUid(IF i <= n THEN f[i] ELSE Padding(i - n), i)]
              : f \in [1..n -> ToolPayloads] }
            : n \in sizes }

\* the second family is longer than AGGRESSIVE_PRESERVE_RECENT_TURNS, so
\* that the upper end of the clamp decides how much is dropped
LongHistories ==
    LongHistoriesOf(PaddingLen, 1..(MaxHistory - 1))
        \cup LongHistoriesOf(AGGRESSIVE_PRESERVE_RECENT_TURNS, {1})

\* values of preserve_recent_turns inside and above the clamp range of
\* apply_aggressive_trim_unified
LargePreserve ==
    {MIN_PRESERVE_RECENT_TURNS + 1, AGGRESSIVE_PRESERVE_RECENT_TURNS + 1}

\* configurations; preserve_recent_tools is only read when
\* tool_aware_retention is set, so it varies only there
TrimConfigs ==
    { c \in [ max_tokens : {0, 14, 30},
              trim_to_percent : {50, 95},
              preserve_recent_turns : (0..MaxHistory) \cup LargePreserve,
              semantic_compression : BOOLEAN,
              tool_aware_retention : BOOLEAN,
              max_structural_depth : {DEFAULT_MAX_STRUCTURAL_DEPTH},
              preserve_recent_tools : {0, 1, 2} ] :
        /\ c.tool_aware_retention \/ c.preserve_recent_tools = 0
        \* the large values are combined with one setting of the rest
        /\ c.preserve_recent_turns \in LargePreserve =>
              /\ c.max_tokens = 14 /\ c.trim_to_percent = 50
              /\ ~c.semantic_compression /\ ~c.tool_aware_retention
        \* preserve_recent_tools is read by prune_unified_tool_responses
        \* only, which reads none of the budget fields: its larger value is
        \* combined with one setting of them
        /\ c.preserve_recent_tools > 1 =>
              /\ c.max_tokens = 14 /\ c.trim_to_percent = 50
              /\ ~c.semantic_compression }

TrimInit ==
    /\ PatchIdle
    /\ PipeIdle
    /\ DecodeIdle
    /\ ScoreIdle
    /\ LlmIdle
    /\ history \in Histories \cup LongHistories
    /\ before = history
    /\ config \in TrimConfigs
    \* the analyzer is only consulted under semantic_compression
    /\ analyzer \in (IF config.semantic_compression THEN BOOLEAN ELSE {FALSE})
    /\ lastOp = "none"
    /\ removed = 0

Prune ==
    /\ before' = history
    /\ history' = prune_unified_tool_responses(history, config)
    /\ removed' = prune_removed(history, config)
    /\ lastOp' = "prune"
    /\ UNCHANGED <<config, analyzer>>
    /\ UNCHANGED <<patchVars, pipeVars, decodeVars, scoreVars, llmVars>>

AggressiveTrim ==
    /\ before' = history
    /\ history' = apply_aggressive_trim_unified(history, config)
    /\ removed' = Len(history) - Len(history')
    /\ lastOp' = "aggressive"
    /\ UNCHANGED <<config, analyzer>>
    /\ UNCHANGED <<patchVars, pipeVars, decodeVars, scoreVars, llmVars>>

EnforceWindow ==
    /\ before' = history
    /\ history' = enforce_unified_context_window(history, config, analyzer)
    /\ removed' = Cardinality(EnforceRemovalSet(history, config, analyzer))
    /\ lastOp' = "enforce"
    /\ UNCHANGED <<config, analyzer>>
    /\ UNCHANGED <<patchVars, pipeVars, decodeVars, scoreVars, llmVars>>

TrimNext == Prune \/ AggressiveTrim \/ EnforceWindow

TrimSpec == TrimInit /\ [][TrimNext]_vars

(***************************************************************************)
(* A session of enforce_unified_context_window calls with and without a    *)
(* score cache: between the calls the history grows and the caller may     *)
(* pass another config; the cache handed to the calls is kept.             *)
(***************************************************************************)
MaxSessionHistory == 3

\* a message of about ten tokens whose text is identified by uid
SessionMessage(uid, role, content_len, calls, call_id, origin, blocks, text) ==
    [uid |-> uid, role |-> role, content_len |-> content_len, tool_calls |-> calls,
     tool_call_id |-> call_id, tool_call_id_len |-> (IF call_id = "none" THEN 0 ELSE 6),
     origin_tool |-> origin, blocks |-> blocks, text |-> text]

\* a fenced block with an import and a variable inside a type
ImportAndField ==
    [blank |-> FALSE, hint |-> "py", detectable |-> TRUE, parses |-> TRUE,
     extracts |-> TRUE,
     symbols |-> <<[kind |-> "Import", scope |-> <<>>],
                   [kind |-> "Variable", scope |-> <<"Config">>]>>]
\* a fenced block declaring 32 structs
ManyStructs ==
    [blank |-> FALSE, hint |-> "rs", detectable |-> TRUE, parses |-> TRUE,
     extracts |-> TRUE,
     symbols |-> [i \in 1..32 |-> [kind |-> "Struct", scope |-> <<>>]]]
\* blocks that add nothing or the floor: whitespace only, an unknown
\* language, a parse failure, a failure to extract symbols
BlankBlock == [RustFunction EXCEPT !.blank = TRUE]
UnknownLanguage == [RustFunction EXCEPT !.hint = "cobol", !.detectable = FALSE]
ParseFailure == [RustFunction EXCEPT !.parses = FALSE]
ExtractFailure == [RustFunction EXCEPT !.extracts = FALSE]

\* a tool response with a code snippet as its text, once with and once
\* without origin_tool; an assistant message with a python block; plain
\* prose; a tool response with JSON in it
SnippetFromTool ==
    SessionMessage("snippet", "tool", 20, NoCalls, "call_1", TRUE, <<>>, BareSnippet)
SnippetNoOrigin ==
    SessionMessage("snippet", "tool", 20, NoCalls, "call_1", FALSE, <<>>, BareSnippet)
PythonBlock ==
    SessionMessage("python", "assistant", 21, NoCalls, "none", FALSE,
                   <<ImportAndField>>, NoCode)
Prose == SessionMessage("prose", "assistant", 21, NoCalls, "none", FALSE, <<>>, NoCode)
JsonFromTool ==
    SessionMessage("json", "tool", 20, NoCalls, "call_2", TRUE, <<>>, NoCode)
\* an assistant message that carries a tool call and the 32 structs; an
\* assistant message with the four blocks that add nothing or the floor
StructsWithCall ==
    SessionMessage("structs", "assistant", 1, OneCall, "none", FALSE,
                   <<ManyStructs>>, NoCode)
OddBlocks ==
    SessionMessage("odd", "assistant", 21, NoCalls, "none", FALSE,
                   <<BlankBlock, UnknownLanguage, ParseFailure, ExtractFailure>>, NoCode)

SessionMessages == {SnippetFromTool, SnippetNoOrigin, PythonBlock, Prose}
ProbeMessages == {JsonFromTool, StructsWithCall, OddBlocks}

\* without semantic_compression the other scoring fields are not read
SessionConfigs ==
    { c \in [ max_tokens : {5, 25},
              trim_to_percent : {80},
              preserve_recent_turns : {1},
              semantic_compression : BOOLEAN,
              tool_aware_retention : BOOLEAN,
              max_structural_depth : {0, 1},
              preserve_recent_tools : {0} ] :
        ~c.semantic_compression =>
            (~c.tool_aware_retention /\ c.max_structural_depth = 0) }

SessionInit ==
    /\ PatchIdle
    /\ PipeIdle
    /\ DecodeIdle
    /\ LlmIdle
    /\ history \in {<<m>> : m \in SessionMessages \cup ProbeMessages}
    /\ before = history
    /\ config \in SessionConfigs
    \* the analyzer is only consulted under semantic_compression
    /\ analyzer \in (IF config.semantic_compression THEN BOOLEAN ELSE {FALSE})
    /\ lastOp = "none"
    /\ removed = 0
    /\ scoreCache = EmptyMap
    /\ semantic_scores = <<>>

\* enforce_unified_context_window(history, config, analyzer, None)
EnforceUncached ==
    /\ before' = history
    /\ history' = enforce_unified_context_window(history, config, analyzer)
    /\ removed' = Cardinality(EnforceRemovalSet(history, config, analyzer))
    /\ semantic_scores' = IF ScoresComputed(history, config)
                          THEN compute_semantic_scores(history, analyzer, config)
                          ELSE <<>>
    /\ lastOp' = "enforce"
    /\ UNCHANGED <<config, analyzer, scoreCache>>
    /\ UNCHANGED <<patchVars, pipeVars, decodeVars, llmVars>>

\* enforce_unified_context_window(history, config, analyzer, Some(cache))
EnforceCached ==
    /\ before' = history
    /\ LET r == compute_semantic_scores_cached(history, analyzer, scoreCache, config)
           removal == EnforceRemovalSetWith(history, config, r.scores)
       IN /\ history' = Retain(history, (1..Len(history)) \ removal)
          /\ removed' = Cardinality(removal)
          /\ semantic_scores' = IF ScoresComputed(history, config) THEN r.scores ELSE <<>>
          /\ scoreCache' = IF ScoresComputed(history, config) THEN r.cache ELSE scoreCache
    /\ lastOp' = "enforce_cached"
    /\ UNCHANGED <<config, analyzer>>
    /\ UNCHANGED <<patchVars, pipeVars, decodeVars, llmVars>>

\* the conversation goes on: a message is pushed onto the history
PushMessage ==
    /\ Len(history) < MaxSessionHistory
    /\ \E m \in SessionMessages : history' = Append(history, m)
    /\ before' = history'
    /\ removed' = 0
    /\ semantic_scores' = <<>>
    /\ lastOp' = "push"
    /\ UNCHANGED <<config, analyzer, scoreCache>>
    /\ UNCHANGED <<patchVars, pipeVars, decodeVars, llmVars>>

\* the caller passes a config with another tool_aware_retention or
\* max_structural_depth from now on
Reconfigure ==
    /\ \E c \in SessionConfigs :
          /\ c # config
          /\ config.semantic_compression /\ analyzer
          /\ c.max_tokens = config.max_tokens
          /\ c.semantic_compression
          /\ config' = c
    /\ before' = history
    /\ removed' = 0
    /\ semantic_scores' = <<>>
    /\ lastOp' = "reconfigure"
    /\ UNCHANGED <<history, analyzer, scoreCache>>
    /\ UNCHANGED <<patchVars, pipeVars, decodeVars, llmVars>>

SessionNext == EnforceUncached \/ EnforceCached \/ PushMessage \/ Reconfigure

SessionSpec == SessionInit /\ [][SessionNext]_vars

(***************************************************************************)
(*                       PATCH APPLICATOR: FILE SYSTEM                     *)
(* A path is a sequence of components below the workspace root (<<>>).     *)
(* A component [n, ts] with ts = 0 is the plain name n; with ts > 0 it is  *)
(* the sibling name ".<n>.<pid>.<ts>.tmp" temporary_path builds.           *)
(* Renames follow POSIX rename(2).                                         *)
(***************************************************************************)
Comp(name) == [n |-> name, ts |-> 0]
NoPath == <<>>

IsPrefix(p, q) == Len(p) <= Len(q) /\ SubSeq(q, 1, Len(p)) = p
Under(fs, p) == {q \in DOMAIN fs : IsPrefix(p, q)}
Parent(p) == SubSeq(p, 1, Len(p) - 1)
Ancestors(p) == {SubSeq(p, 1, k) : k \in 1..(Len(p) - 1)}

FileNode(content, mode) == [kind |-> "file", content |-> content, mode |-> mode]
DirNode == [kind |-> "dir", content |-> <<>>, mode |-> "rwx"]

Exists(fs, p) == p \in DOMAIN fs
IsDirectory(fs, p) == p = <<>> \/ (p \in DOMAIN fs /\ fs[p].kind = "dir")
IsTempPath(p) == \E k \in 1..Len(p) : p[k].ts > 0

\* tokio::fs::metadata: "file", "dir", "notfound" (ErrorKind::NotFound) or
\* "notdir" (an ancestor is a regular file: an error other than NotFound)
metadata(fs, p) ==
    IF p \in DOMAIN fs THEN fs[p].kind
    ELSE IF \E q \in Ancestors(p) : q \in DOMAIN fs /\ fs[q].kind = "file" THEN "notdir"
    ELSE "notfound"

PutNode(fs, p, node) == [q \in DOMAIN fs \cup {p} |-> IF q = p THEN node ELSE fs[q]]
\* remove_file / remove_dir_all
RemoveTree(fs, p) == [q \in DOMAIN fs \ Under(fs, p) |-> fs[q]]

\* fs::create_dir_all
CanCreateDirAll(fs, dir) ==
    ~\E q \in Ancestors(dir) \cup {dir} : q \in DOMAIN fs /\ fs[q].kind = "file"
create_dir_all(fs, dir) ==
    LET new == ((Ancestors(dir) \cup {dir}) \ {<<>>}) \ DOMAIN fs
    IN [q \in DOMAIN fs \cup new |-> IF q \in new THEN DirNode ELSE fs[q]]

\* why rename(2) refuses ("" when it succeeds)
RenameError(fs, src, dst) ==
    IF src \notin DOMAIN fs THEN "notfound"
    ELSE IF ~IsDirectory(fs, Parent(dst)) THEN "notfound"
    ELSE IF IsPrefix(src, dst) /\ src # dst THEN "invalid"
    ELSE IF dst \notin DOMAIN fs THEN ""
    ELSE IF fs[src].kind = "file" /\ fs[dst].kind = "dir" THEN "isdir"
    ELSE IF fs[src].kind = "dir" /\ fs[dst].kind = "file" THEN "notdir"
    ELSE IF fs[src].kind = "dir" /\ Under(fs, dst) # {dst} THEN "notempty"
    ELSE ""

\* the workspace after a successful rename: the subtree at src moves to dst
MoveTree(fs, src, dst) ==
    LET moved == Under(fs, src)
        kept == DOMAIN fs \ (moved \cup Under(fs, dst))
        newDom == kept \cup {dst \o SubSeq(q, Len(src) + 1, Len(q)) : q \in moved}
    IN [q \in newDom |->
          IF IsPrefix(dst, q) THEN fs[src \o SubSeq(q, Len(dst) + 1, Len(q))]
          ELSE fs[q]]

\* temporary_path: ".<file_name>.<pid>.<nanos>.tmp" next to the target
temporary_path(target, ts) ==
    Parent(target) \o <<[n |-> target[Len(target)].n, ts |-> ts]>>

(***************************************************************************)
(* io.rs: AtomicWriter, BackupEntry, remove_existing_entry, snapshot_for.  *)
(* The parameter f names the step at which an I/O failure is injected      *)
(* ("none": no failure).                                                   *)
(***************************************************************************)
\* AtomicWriter::create
AtomicWriterCreate(fs, path, ts, f) ==
    IF f = "create_dir_all" \/ ~CanCreateDirAll(fs, Parent(path))
    THEN [ok |-> FALSE, fs |-> fs, err |-> "Io:create directories", temp |-> NoPath]
    ELSE LET fs1 == create_dir_all(fs, Parent(path))
             temp == temporary_path(path, ts)
         IN IF f = "create" \/ (temp \in DOMAIN fs1 /\ fs1[temp].kind = "dir")
            THEN [ok |-> FALSE, fs |-> fs1, err |-> "Io:create", temp |-> temp]
            ELSE [ok |-> TRUE, fs |-> PutNode(fs1, temp, FileNode(<<>>, "rw")),
                  err |-> "", temp |-> temp]

\* (mutant of AtomicWriterWriteAll: the bytes never reach the temp file)
AtomicWriterWriteAll_drops_bytes(fs, temp, bytes, f) ==
    IF f = "write" THEN [ok |-> FALSE, fs |-> fs, err |-> "Io:write"]
    ELSE [ok |-> TRUE, fs |-> fs, err |-> ""]

\* AtomicWriter::write_all
AtomicWriterWriteAll(fs, temp, bytes, f) ==
    IF f = "write" THEN [ok |-> FALSE, fs |-> fs, err |-> "Io:write"]
    ELSE [ok |-> TRUE, fs |-> PutNode(fs, temp, FileNode(bytes, fs[temp].mode)), err |-> ""]

\* (mutant of AtomicWriterCommit: the recorded permissions are not applied)
AtomicWriterCommit_ignores_permissions(fs, path, temp, permissions, f) ==
    IF f = "flush" THEN [ok |-> FALSE, fs |-> fs, err |-> "Io:flush"]
    ELSE IF f = "rename" \/ RenameError(fs, temp, path) # ""
    THEN [ok |-> FALSE, fs |-> RemoveTree(fs, temp), err |-> "Io:rename"]
    ELSE [ok |-> TRUE, fs |-> MoveTree(fs, temp, path), err |-> ""]

\* AtomicWriter::commit
AtomicWriterCommit(fs, path, temp, permissions, f) ==
    IF f = "flush" THEN [ok |-> FALSE, fs |-> fs, err |-> "Io:flush"]
    ELSE IF permissions # "none" /\ f = "set_permissions"
    THEN [ok |-> FALSE, fs |-> fs, err |-> "Io:set permissions"]
    ELSE LET fs1 == IF permissions # "none"
                    THEN PutNode(fs, temp, FileNode(fs[temp].content, permissions))
                    ELSE fs
         IN IF f = "rename" \/ RenameError(fs1, temp, path) # ""
            THEN [ok |-> FALSE, fs |-> RemoveTree(fs1, temp), err |-> "Io:rename"]
            ELSE [ok |-> TRUE, fs |-> MoveTree(fs1, temp, path), err |-> ""]

\* AtomicWriter::rollback
AtomicWriterRollback(fs, temp) == RemoveTree(fs, temp)

\* remove_existing_entry
remove_existing_entry(fs, path, f) ==
    IF metadata(fs, path) = "notdir" THEN [ok |-> FALSE, fs |-> fs, err |-> "Io:inspect"]
    ELSE IF metadata(fs, path) = "notfound" THEN [ok |-> TRUE, fs |-> fs, err |-> ""]
    ELSE IF f = "remove" THEN [ok |-> FALSE, fs |-> fs, err |-> "Io:delete"]
    ELSE [ok |-> TRUE, fs |-> RemoveTree(fs, path), err |-> ""]

\* (mutant of BackupEntryRemove: the backup is left in place)
BackupEntryRemove_keeps(fs, backup, f) == [ok |-> TRUE, fs |-> fs, err |-> ""]

\* BackupEntry::remove (a missing backup counts as removed)
BackupEntryRemove(fs, backup, f) ==
    IF metadata(fs, backup) = "notfound" THEN [ok |-> TRUE, fs |-> fs, err |-> ""]
    ELSE IF f = "remove" \/ metadata(fs, backup) = "notdir"
    THEN [ok |-> FALSE, fs |-> fs, err |-> "Io:delete"]
    ELSE [ok |-> TRUE, fs |-> RemoveTree(fs, backup), err |-> ""]

\* BackupEntry::restore (rename(2) replaces an existing file or empty
\* directory; it does not report AlreadyExists)
BackupEntryRestore(fs, backup, destination, f) ==
    IF f = "restore" \/ RenameError(fs, backup, destination) # ""
    THEN [ok |-> FALSE, fs |-> fs, err |-> "Io:restore"]
    ELSE [ok |-> TRUE, fs |-> MoveTree(fs, backup, destination), err |-> ""]

\* snapshot_for with BackupEntry::create: kind "none" stands for Ok(None)
snapshot_for(fs, path, ts, f) ==
    LET meta == metadata(fs, path)
    IN IF f = "inspect" \/ meta = "notdir"
       THEN [ok |-> FALSE, fs |-> fs, err |-> "Io:inspect", backup |-> NoPath, kind |-> "none"]
       ELSE IF meta = "notfound"
       THEN [ok |-> TRUE, fs |-> fs, err |-> "", backup |-> NoPath, kind |-> "none"]
       ELSE LET backup == temporary_path(path, ts)
            IN IF f = "snapshot" \/ RenameError(fs, path, backup) # ""
               THEN [ok |-> FALSE, fs |-> fs, err |-> "Io:rename", backup |-> NoPath,
                     kind |-> "none"]
               ELSE [ok |-> TRUE, fs |-> MoveTree(fs, path, backup), err |-> "",
                     backup |-> backup, kind |-> meta]


(***************************************************************************)
(*                 PATCH APPLICATOR: OPERATIONS AND RUNNER                 *)
(***************************************************************************)
\* PatchOperation
AddFile(path, content) ==
    [kind |-> "add", path |-> path, new_path |-> NoPath, content |-> content, chunks |-> <<>>]
DeleteFile(path) ==
    [kind |-> "delete", path |-> path, new_path |-> NoPath, content |-> <<>>, chunks |-> <<>>]
UpdateFile(path, new_path, chunks) ==
    [kind |-> "update", path |-> path, new_path |-> new_path, content |-> <<>>,
     chunks |-> chunks]

\* PreparedOperation: the operation with the permissions recorded at plan time
Prepared(op, permissions) ==
    [kind |-> op.kind, path |-> op.path, new_path |-> op.new_path, content |-> op.content,
     chunks |-> op.chunks, permissions |-> permissions]

\* the destination an UpdateFile checks at plan time:
\* new_path.filter(|candidate| candidate != path)
MoveDestination(op) ==
    IF op.new_path # NoPath /\ op.new_path # op.path THEN op.new_path ELSE NoPath

\* what plan_operations decides for one operation ("" when it is accepted);
\* inject: the metadata call on the operation's own path fails
PlanCheck(fs, op, inject) ==
    IF op.kind = "add"
    THEN (IF inject THEN "Io:inspect"
          ELSE IF metadata(fs, op.path) \in {"file", "dir"} THEN "InvalidOperation"
          ELSE IF metadata(fs, op.path) = "notfound" THEN ""
          ELSE "Io:inspect")
    ELSE IF op.kind = "delete" THEN ""
    ELSE IF inject THEN "Io:inspect"
    ELSE IF metadata(fs, op.path) = "notfound" THEN "MissingFile"
    ELSE IF metadata(fs, op.path) = "notdir" THEN "Io:inspect"
    ELSE IF metadata(fs, op.path) = "dir" THEN "InvalidOperation"
    ELSE IF MoveDestination(op) = NoPath THEN ""
    ELSE IF metadata(fs, MoveDestination(op)) \in {"file", "dir"} THEN "InvalidOperation"
    ELSE IF metadata(fs, MoveDestination(op)) = "notfound" THEN ""
    ELSE "Io:inspect"

RECURSIVE PlanFrom(_, _, _, _, _)
\* the loop of plan_operations from operation i on; faultAt is the position
\* whose metadata call fails (0: none)
PlanFrom(fs, operations, i, prepared, faultAt) ==
    IF i > Len(operations) THEN [ok |-> TRUE, plan |-> prepared, err |-> "", hit |-> FALSE]
    ELSE LET op == operations[i]
             verdict == PlanCheck(fs, op, faultAt = i)
         IN IF verdict # ""
            THEN [ok |-> FALSE, plan |-> <<>>, err |-> verdict, hit |-> faultAt = i]
            ELSE PlanFrom(fs, operations, i + 1,
                          Append(prepared,
                                 Prepared(op, IF op.kind = "update" THEN fs[op.path].mode
                                              ELSE "none")),
                          faultAt)

\* (mutant of plan_operations: only the first operation is validated)
plan_operations_first_only(fs, operations, faultAt) ==
    IF operations = <<>>
    THEN [ok |-> FALSE, plan |-> <<>>, err |-> "NoOperations", hit |-> FALSE]
    ELSE IF PlanCheck(fs, operations[1], faultAt = 1) # ""
    THEN [ok |-> FALSE, plan |-> <<>>, err |-> PlanCheck(fs, operations[1], faultAt = 1),
          hit |-> faultAt = 1]
    ELSE [ok |-> TRUE,
          plan |-> [i \in 1..Len(operations) |->
                      Prepared(operations[i],
                               IF operations[i].kind = "update"
                                  /\ metadata(fs, operations[i].path) = "file"
                               THEN fs[operations[i].path].mode ELSE "none")],
          err |-> "", hit |-> FALSE]

\* plan_operations
plan_operations(fs, operations, faultAt) ==
    IF operations = <<>>
    THEN [ok |-> FALSE, plan |-> <<>>, err |-> "NoOperations", hit |-> FALSE]
    ELSE PlanFrom(fs, operations, 1, <<>>, faultAt)

\* OperationState (lifecycle.rs)
AddedFile(path) ==
    [kind |-> "added", path |-> path, backup |-> NoPath, written |-> path]
DeletedFile(original_path, backup) ==
    [kind |-> "deleted", path |-> original_path, backup |-> backup, written |-> NoPath]
UpdatedFile(original_path, backup, written) ==
    [kind |-> "updated", path |-> original_path, backup |-> backup, written |-> written]
NoState == [kind |-> "none", path |-> NoPath, backup |-> NoPath, written |-> NoPath]

\* OperationEffect
Applied(fs, state) == [status |-> "applied", fs |-> fs, err |-> "", state |-> state]
Skipped(fs) == [status |-> "skipped", fs |-> fs, err |-> "", state |-> NoState]
Failure(fs, err) == [status |-> "failed", fs |-> fs, err |-> err, state |-> NoState]

\* AddOperation::apply
AddApply(fs, op, ts, f) ==
    LET c == AtomicWriterCreate(fs, op.path, ts, f)
    IN IF ~c.ok THEN Failure(c.fs, c.err)
       ELSE LET w == AtomicWriterWriteAll(c.fs, c.temp, op.content, f)
            IN IF ~w.ok THEN Failure(w.fs, w.err)
               ELSE LET k == AtomicWriterCommit(w.fs, op.path, c.temp, "none", f)
                    IN IF k.ok THEN Applied(k.fs, AddedFile(op.path))
                       ELSE Failure(k.fs, k.err)

\* DeleteOperation::apply
DeleteApply(fs, op, ts, f) ==
    LET b == snapshot_for(fs, op.path, ts, f)
    IN IF ~b.ok THEN Failure(b.fs, b.err)
       ELSE IF b.kind = "none" THEN Skipped(b.fs)
       ELSE Applied(b.fs, DeletedFile(op.path, b.backup))

RECURSIVE FirstIndexOf(_, _, _)
FirstIndexOf(lines, line, i) ==
    IF i > Len(lines) THEN 0
    ELSE IF lines[i] = line THEN i
    ELSE FirstIndexOf(lines, line, i + 1)

RECURSIVE ApplyChunks(_, _, _)
\* the chunks applied one after the other to the working text: each chunk's
\* pre-image line is located and replaced by its post-image
ApplyChunks(text, chunks, i) ==
    IF i > Len(chunks) THEN [ok |-> TRUE, text |-> text]
    ELSE LET at == FirstIndexOf(text, chunks[i].pre, 1)
         IN IF at = 0 THEN [ok |-> FALSE, text |-> text]
            ELSE ApplyChunks([text EXCEPT ![at] = chunks[i].post], chunks, i + 1)

\* UpdateOperation::apply: read, apply the chunks, snapshot the source, write
\* the destination atomically with the preserved permissions; a failure after
\* the snapshot restores it before the error is returned
UpdateApply(fs, op, ts, f) ==
    LET dest == IF op.new_path = NoPath THEN op.path ELSE op.new_path
    IN IF f = "read" THEN Failure(fs, "Io:read")
       ELSE IF metadata(fs, op.path) = "notfound" THEN Failure(fs, "MissingFile")
       ELSE IF metadata(fs, op.path) # "file" THEN Failure(fs, "Io:read")
       ELSE LET new == ApplyChunks(fs[op.path].content, op.chunks, 1)
            IN IF ~new.ok THEN Failure(fs, "SegmentNotFound")
               ELSE LET b == snapshot_for(fs, op.path, ts, f)
                    IN IF ~b.ok THEN Failure(b.fs, b.err)
                       ELSE LET c == AtomicWriterCreate(b.fs, dest, ts + resolution, f)
                                Restored(g) == BackupEntryRestore(g, b.backup, op.path, "none").fs
                            IN IF ~c.ok THEN Failure(Restored(c.fs), c.err)
                               ELSE LET w == AtomicWriterWriteAll(c.fs, c.temp, new.text, f)
                                    IN IF ~w.ok
                                       THEN Failure(Restored(AtomicWriterRollback(w.fs, c.temp)),
                                                    w.err)
                                       ELSE LET k == AtomicWriterCommit(w.fs, dest, c.temp,
                                                                        op.permissions, f)
                                            IN IF k.ok
                                               THEN Applied(k.fs,
                                                       UpdatedFile(op.path, b.backup, dest))
                                               ELSE Failure(Restored(k.fs), k.err)

\* OperationState::rollback
StateRollback(fs, state, f) ==
    IF state.kind = "added" THEN remove_existing_entry(fs, state.path, f)
    ELSE IF state.kind = "deleted" THEN BackupEntryRestore(fs, state.backup, state.path, f)
    ELSE LET r == IF state.written # state.path
                  THEN remove_existing_entry(fs, state.written, f)
                  ELSE [ok |-> TRUE, fs |-> fs, err |-> ""]
         IN IF ~r.ok THEN r
            ELSE BackupEntryRestore(r.fs, state.backup, state.path, f)

\* OperationState::commit
StateCommit(fs, state, f) ==
    IF state.kind = "added" THEN [ok |-> TRUE, fs |-> fs, err |-> ""]
    ELSE BackupEntryRemove(fs, state.backup, f)

\* ProgressMarker::annotate: "[current/total] detail"
Annotate(current, total, detail) ==
    [current |-> current, total |-> total, detail |-> detail]

(***************************************************************************)
(* Inputs of the patch specification                                       *)
(***************************************************************************)
MaxOps == 3
MaxFaults == 1

PA == <<Comp("a")>>
PD == <<Comp("d")>>
PDA == <<Comp("d"), Comp("a")>>

Alpha == <<"alpha">>
HitChunk == <<[pre |-> "alpha", post |-> "beta"]>>
MissChunk == <<[pre |-> "missing", post |-> "changed"]>>

PatchOperations ==
    { AddFile(PA, <<"hello">>), AddFile(PDA, <<"hello">>),
      DeleteFile(PA), DeleteFile(PD),
      UpdateFile(PA, NoPath, HitChunk), UpdateFile(PA, NoPath, MissChunk),
      UpdateFile(PA, PA, HitChunk),
      UpdateFile(PA, PDA, HitChunk), UpdateFile(PA, PD, HitChunk),
      UpdateFile(PDA, PA, HitChunk) }

OperationLists ==
    UNION { [1..n -> PatchOperations] : n \in 0..MaxOps }

\* workspaces: a is absent or a read-only file; d is absent, a file, an empty
\* directory or a directory holding the file a
Workspaces ==
    { [q \in A \cup D |->
         IF q = PD /\ PDA \in D THEN DirNode
         ELSE IF q = PD /\ dIsDir THEN DirNode
         ELSE IF q = PA THEN FileNode(Alpha, "ro")
         ELSE FileNode(Alpha, "rw")]
      : A \in {{}, {PA}}, D \in {{}, {PD}, {PD, PDA}}, dIsDir \in BOOLEAN }

PatchInit ==
    /\ TrimIdle
    /\ PipeIdle
    /\ DecodeIdle
    /\ ScoreIdle
    /\ LlmIdle
    /\ pfs0 \in Workspaces
    /\ pfs = pfs0
    /\ ops \in OperationLists
    /\ plan = <<>>
    /\ ppc = "plan"
    /\ nextOp = 1
    /\ executed = <<>>
    /\ journal = <<>>
    /\ results = <<>>
    /\ presult = NoResult
    /\ origErr = ""
    /\ rollbackErr = ""
    /\ clock = 1
    /\ resolution = 1
    /\ faults = 0

\* the failure injected into a step: "none", or one of the step's I/O calls
\* while the budget of injected failures lasts
Injected(points) == {"none"} \cup (IF faults < MaxFaults THEN points ELSE {})
Charge(f) == IF f = "none" THEN faults ELSE faults + 1

\* apply, first half: plan_operations(root, operations).await?
PlanOperations ==
    /\ ppc = "plan"
    /\ \E faultAt \in 0..(IF faults < MaxFaults THEN Len(ops) ELSE 0) :
         LET r == plan_operations(pfs, ops, faultAt)
         IN /\ faultAt # 0 => r.hit
            /\ faults' = IF faultAt = 0 THEN faults ELSE faults + 1
            /\ IF r.ok
               THEN /\ plan' = r.plan
                    /\ ppc' = "execute"
                    /\ presult' = presult
               ELSE /\ plan' = <<>>
                    /\ ppc' = "done"
                    /\ presult' = [ok |-> FALSE, phase |-> "plan", err |-> r.err,
                                   rollback |-> ""]
    /\ UNCHANGED <<pfs, pfs0, ops, nextOp, executed, journal, results, origErr,
                   rollbackErr, clock, resolution>>
    /\ UNCHANGED <<trimVars, pipeVars, decodeVars, scoreVars, llmVars>>

\* (mutant of AfterEffect: an error does not end the loop)
AfterEffect_ignores_errors(effect, index, total) ==
    IF index = total THEN "commit" ELSE "execute"

\* where execute_plan goes after the effect of operation `index` of `total`:
\* the Err arm rolls back and returns, the last iteration falls through to
\* commit_all, any other continues the loop
AfterEffect(effect, index, total) ==
    IF effect = "failed" THEN "rollback"
    ELSE IF index = total THEN "commit"
    ELSE "execute"

\* one iteration of the loop of execute_plan, given the operation's effect
RunnerStep(e, f) ==
    /\ pfs' = e.fs
    /\ faults' = Charge(f)
    /\ clock' = clock + 2 * resolution
    /\ executed' = Append(executed, nextOp)
    /\ ppc' = AfterEffect(e.status, nextOp, Len(plan))
    /\ IF e.status = "applied"
       THEN /\ journal' = Append(journal, e.state)
            /\ results' = Append(results, Annotate(nextOp, Max(Len(plan), 1), "applied"))
            /\ nextOp' = nextOp + 1
            /\ UNCHANGED <<origErr, rollbackErr>>
       ELSE IF e.status = "skipped"
       THEN /\ results' = Append(results, Annotate(nextOp, Max(Len(plan), 1), "skipped"))
            /\ nextOp' = nextOp + 1
            /\ UNCHANGED <<journal, origErr, rollbackErr>>
       ELSE /\ origErr' = e.err
            /\ rollbackErr' = ""
            /\ UNCHANGED <<journal, results, nextOp>>
    /\ UNCHANGED <<pfs0, ops, plan, presult, resolution>>
    /\ UNCHANGED <<trimVars, pipeVars, decodeVars, scoreVars, llmVars>>

ExecuteAdd ==
    /\ ppc = "execute" /\ nextOp <= Len(plan) /\ plan[nextOp].kind = "add"
    /\ \E f \in Injected({"create_dir_all", "create", "write", "flush", "rename"}) :
         RunnerStep(AddApply(pfs, plan[nextOp], clock, f), f)

ExecuteDelete ==
    /\ ppc = "execute" /\ nextOp <= Len(plan) /\ plan[nextOp].kind = "delete"
    /\ \E f \in Injected({"inspect", "snapshot"}) :
         RunnerStep(DeleteApply(pfs, plan[nextOp], clock, f), f)

ExecuteUpdate ==
    /\ ppc = "execute" /\ nextOp <= Len(plan) /\ plan[nextOp].kind = "update"
    /\ \E f \in Injected({"read", "inspect", "snapshot", "create_dir_all", "create",
                          "write", "flush", "set_permissions", "rename"}) :
         RunnerStep(UpdateApply(pfs, plan[nextOp], clock, f), f)

\* (mutant of RollbackStep: the journal is unwound oldest entry first)
RollbackStep_fifo ==
    /\ ppc = "rollback" /\ journal # <<>>
    /\ \E f \in Injected({"remove", "restore"}) :
         LET state == journal[1]
             r == StateRollback(pfs, state, f)
         IN /\ pfs' = r.fs
            /\ faults' = Charge(f)
            /\ rollbackErr' = IF ~r.ok /\ rollbackErr = "" THEN r.err ELSE rollbackErr
    /\ journal' = Tail(journal)
    /\ UNCHANGED <<pfs0, ops, plan, ppc, nextOp, executed, results, presult, origErr, clock, resolution>>
    /\ UNCHANGED <<trimVars, pipeVars, decodeVars, scoreVars, llmVars>>

\* OperationJournal::rollback_all, one pass of `while let Some(state) = applied.pop()`
RollbackStep ==
    /\ ppc = "rollback" /\ journal # <<>>
    /\ \E f \in Injected({"remove", "restore"}) :
         LET state == journal[Len(journal)]
             r == StateRollback(pfs, state, f)
         IN /\ pfs' = r.fs
            /\ faults' = Charge(f)
            /\ rollbackErr' = IF ~r.ok /\ rollbackErr = "" THEN r.err ELSE rollbackErr
    /\ journal' = SubSeq(journal, 1, Len(journal) - 1)
    /\ UNCHANGED <<pfs0, ops, plan, ppc, nextOp, executed, results, presult, origErr, clock, resolution>>
    /\ UNCHANGED <<trimVars, pipeVars, decodeVars, scoreVars, llmVars>>

\* (mutant of RollbackFinish: a rollback error takes the place of the
\* operation's error)
RollbackFinish_reports_rollback_error ==
    /\ ppc = "rollback" /\ journal = <<>>
    /\ presult' = [ok |-> FALSE, phase |-> "execute",
                   err |-> IF rollbackErr # "" THEN rollbackErr ELSE origErr,
                   rollback |-> ""]
    /\ ppc' = "done"
    /\ UNCHANGED <<pfs, pfs0, ops, plan, nextOp, executed, journal, results, origErr,
                   rollbackErr, clock, resolution, faults>>
    /\ UNCHANGED <<trimVars, pipeVars, decodeVars, scoreVars, llmVars>>

\* execute_plan returning the error once rollback_all is through
RollbackFinish ==
    /\ ppc = "rollback" /\ journal = <<>>
    /\ presult' = [ok |-> FALSE, phase |-> "execute", err |-> origErr,
                   rollback |-> rollbackErr]
    /\ ppc' = "done"
    /\ UNCHANGED <<pfs, pfs0, ops, plan, nextOp, executed, journal, results, origErr,
                   rollbackErr, clock, resolution, faults>>
    /\ UNCHANGED <<trimVars, pipeVars, decodeVars, scoreVars, llmVars>>

\* OperationJournal::commit_all, one pass of its loop: `state.commit().await?`
CommitStep ==
    /\ ppc = "commit" /\ journal # <<>>
    /\ \E f \in Injected({"remove"}) :
         LET state == journal[Len(journal)]
             r == StateCommit(pfs, state, f)
         IN /\ pfs' = r.fs
            /\ faults' = Charge(f)
            /\ IF r.ok
               THEN UNCHANGED <<ppc, presult>>
               ELSE /\ ppc' = "done"
                    /\ presult' = [ok |-> FALSE, phase |-> "commit", err |-> r.err,
                                   rollback |-> ""]
    /\ journal' = SubSeq(journal, 1, Len(journal) - 1)
    /\ UNCHANGED <<pfs0, ops, plan, nextOp, executed, results, origErr, rollbackErr, clock, resolution>>
    /\ UNCHANGED <<trimVars, pipeVars, decodeVars, scoreVars, llmVars>>

\* execute_plan returning Ok(results)
CommitFinish ==
    /\ ppc = "commit" /\ journal = <<>>
    /\ presult' = [ok |-> TRUE, phase |-> "commit", err |-> "", rollback |-> ""]
    /\ ppc' = "done"
    /\ UNCHANGED <<pfs, pfs0, ops, plan, nextOp, executed, journal, results, origErr,
                   rollbackErr, clock, resolution, faults>>
    /\ UNCHANGED <<trimVars, pipeVars, decodeVars, scoreVars, llmVars>>

PatchNext ==
    \/ PlanOperations
    \/ ExecuteAdd
    \/ ExecuteDelete
    \/ ExecuteUpdate
    \/ RollbackStep
    \/ RollbackFinish
    \/ CommitStep
    \/ CommitFinish

PatchSpec == PatchInit /\ [][PatchNext]_vars

\* apply on a platform whose SystemTime does not advance between two
\* temporary_path calls of one apply (a coarse or stepped wall clock):
\* everything as in PatchInit but the resolution
PatchCoarseInit ==
    /\ TrimIdle
    /\ PipeIdle
    /\ DecodeIdle
    /\ ScoreIdle
    /\ LlmIdle
    /\ pfs0 \in Workspaces
    /\ pfs = pfs0
    /\ ops \in OperationLists
    /\ plan = <<>>
    /\ ppc = "plan"
    /\ nextOp = 1
    /\ executed = <<>>
    /\ journal = <<>>
    /\ results = <<>>
    /\ presult = NoResult
    /\ origErr = ""
    /\ rollbackErr = ""
    /\ clock = 1
    /\ resolution = 0
    /\ faults = 0

PatchCoarseSpec == PatchCoarseInit /\ [][PatchNext]_vars

(***************************************************************************)
(*                       TOOL EXECUTION PIPELINE                           *)
(* execute_tool_with_progress as a process, interleaved with the UI thread *)
(* that owns CtrlCState and the Notify, with the tool it runs, and with    *)
(* the clock.  pc follows the await points of the function:                *)
(*   "prep"   the 50 ms preparation sleep                                  *)
(*   "loop"   the head of 'outer                                           *)
(*   "armed"  token and exec_future built, second check still ahead        *)
(*   "race"   inside select!                                               *)
(*   "warned" the warning branch ran, the next select is not yet entered   *)
(*   "done"   a ToolExecutionStatus has been returned                      *)
(***************************************************************************)
MaxTime == 2
MaxCeiling == 2
MaxNotifies == 1
\* the preparation sleep, in ticks
PrepDelay == 1

Ceilings == {NoCeiling} \cup (0..MaxCeiling)
WarningPercents == {0, 50}

\* (mutant of bits_set: only the cancel bit is read)
bits_set_cancel_only == cancelBit

bits_set == cancelBit \/ exitBit

\* (mutant of TimerDue: the timer fires one tick early)
TimerDue_early(deadline) == now + 1 >= deadline

\* tokio::time::Sleep is ready once its deadline has passed
TimerDue(deadline) == now >= deadline

\* the deadline of warning_timer when the timers are created at time t
warning_deadline(t) ==
    IF ceiling # NoCeiling /\ warnPct > 0 /\ warnPct < 100
    THEN (IF (ceiling * warnPct) \div 100 = 0 THEN NoTimer
          ELSE t + (ceiling * warnPct) \div 100)
    ELSE NoTimer

\* the branches of select!, in source order
Notified == 1
Warning == 2
TimedOut == 3
Exec == 4

\* the order select! polls its branches in, from a random start
PollOrder(start) == [i \in 1..4 |-> ((start + i - 2) % 4) + 1]

\* branch preconditions (`, if ...`)
BranchEnabled(b) ==
    IF b = Warning THEN warningTimer # NoTimer /\ ~warningEmitted
    ELSE IF b = TimedOut THEN ceiling # NoCeiling
    ELSE TRUE

\* the branch's future is ready when polled; imm: a tool that is first
\* polled now completes at once
BranchReady(b, imm) ==
    IF b = Notified THEN woken \/ permit
    ELSE IF b = Warning THEN BranchEnabled(b) /\ TimerDue(warningTimer)
    ELSE IF b = TimedOut THEN BranchEnabled(b) /\ TimerDue(raceStart + ceiling)
    ELSE toolState = "ready" \/ (toolState = "none" /\ imm)

\* position in the poll order of the branch that completes the select (0: none)
WinnerPos(start, imm) ==
    IF \E i \in 1..4 : BranchReady(PollOrder(start)[i], imm)
    THEN CHOOSE i \in 1..4 :
            /\ BranchReady(PollOrder(start)[i], imm)
            /\ \A j \in 1..(i - 1) : ~BranchReady(PollOrder(start)[j], imm)
    ELSE 0

ExecPos(start) == CHOOSE i \in 1..4 : PollOrder(start)[i] = Exec

\* exec_future is polled in this pass of select!
ExecPolled(start, imm) ==
    WinnerPos(start, imm) = 0 \/ ExecPos(start) <= WinnerPos(start, imm)

\* (mutant of NotifiedOutcome: a notification always ends the invocation)
NotifiedOutcome_always_cancels(bits) == "Cancelled"

\* the notified branch: Cancelled when a bit is set, otherwise `continue 'outer`
NotifiedOutcome(bits) == IF bits THEN "Cancelled" ELSE "restart"

\* estimated_progress for an elapsed time in ticks; a tick is the length of
\* the preparation sleep (50 ms), so that 500 ms, 2 s and 5 s are 10, 40 and
\* 100 ticks
estimated_progress(elapsed) ==
    IF elapsed < 10 * PrepDelay THEN 30
    ELSE IF elapsed < 40 * PrepDelay THEN 50
    ELSE IF elapsed < 100 * PrepDelay THEN 70
    ELSE 85

\* ProgressReporter::current_progress: the percentage set last
current_progress(log) == log[Len(log)]

\* (mutant of token_cancel: the token is dropped without being cancelled)
token_cancel_skipped(tokens, t) == tokens

\* token.cancel(): the token of attempt t joins the cancelled tokens
token_cancel(tokens, t) == tokens \cup {t}

\* (mutant of Return: an error of the tool is reported as a success)
Return_swallows_error(s) ==
    /\ pc' = "done"
    /\ status' = (IF s = "Failure" THEN "Success" ELSE s)
    /\ statusAttempt' = attempts
    /\ doneAt' = now

\* return of a ToolExecutionStatus
Return(s) ==
    /\ pc' = "done"
    /\ status' = s
    /\ statusAttempt' = attempts
    /\ doneAt' = now

PipeInit ==
    /\ TrimIdle
    /\ PatchIdle
    /\ DecodeIdle
    /\ ScoreIdle
    /\ LlmIdle
    /\ pc = "prep"
    /\ cancelBit = FALSE
    /\ exitBit = FALSE
    /\ permit = FALSE
    /\ woken = FALSE
    /\ notifyKind \in {"one", "waiters"}
    /\ ceiling \in Ceilings
    /\ warnPct \in WarningPercents
    /\ hang \in BOOLEAN
    /\ toolState = "none"
    /\ toolResult = "none"
    /\ now = 0
    /\ prepDeadline = PrepDelay
    /\ attempts = 0
    /\ invocations = 0
    /\ notifies = 0
    /\ raceNotifies = 0
    /\ softRestarts = 0
    /\ cancelledTokens = {}
    /\ raceStart = 0
    /\ warningTimer = NoTimer
    /\ warningEmitted = FALSE
    /\ warnings = 0
    /\ polled = FALSE
    /\ status = "none"
    /\ statusAttempt = 0
    /\ doneAt = 0
    /\ cancelEarly = FALSE
    \* set_progress(5) precedes the preparation sleep
    /\ progressLog = <<5>>
    /\ lastWinner = 0

pipeConfig == <<notifyKind, ceiling, warnPct, hang, prepDeadline>>
pipeObs == <<progressLog, lastWinner>>

\* a timer the pipeline is waiting for has not fired yet
TimerPending ==
    \/ pc = "prep" /\ ~TimerDue(prepDeadline)
    \/ pc \in {"race", "warned"} /\ ceiling # NoCeiling /\ now < raceStart + ceiling

\* the clock advances; entering select! follows the creation of the timers
\* (and the `continue` of the warning branch) without an await point, so no
\* tick passes in between
Tick ==
    /\ pc \notin {"idle", "done"}
    /\ ~(pc = "race" /\ ~polled)
    /\ now < MaxTime \/ TimerPending
    /\ now' = now + 1
    /\ UNCHANGED <<pc, cancelBit, exitBit, permit, woken, toolState, attempts, invocations,
                   notifies, raceNotifies, softRestarts, cancelledTokens, raceStart,
                   warningTimer, warningEmitted, warnings, polled, status, statusAttempt,
                   doneAt, cancelEarly>>
    /\ UNCHANGED <<toolResult, pipeConfig, pipeObs, trimVars, patchVars, decodeVars, scoreVars, llmVars>>

\* Notify::notify_one / Notify::notify_waiters as the select sees it
Deliver ==
    IF pc = "race" /\ polled /\ ~woken
    THEN woken' = TRUE /\ permit' = permit
    ELSE /\ woken' = woken
         /\ permit' = (permit \/ notifyKind = "one")

\* the UI thread signals without setting a bit (one stroke while a tool runs)
UINotify ==
    /\ pc \notin {"idle", "done"}
    /\ notifies < MaxNotifies
    /\ Deliver
    /\ notifies' = notifies + 1
    /\ raceNotifies' = IF pc = "race" /\ polled /\ ~bits_set THEN raceNotifies + 1
                       ELSE raceNotifies
    /\ UNCHANGED <<pc, cancelBit, exitBit, toolState, now, attempts, invocations,
                   softRestarts, cancelledTokens, raceStart, warningTimer, warningEmitted,
                   warnings, polled, status, statusAttempt, doneAt, cancelEarly>>
    /\ UNCHANGED <<toolResult, pipeConfig, pipeObs, trimVars, patchVars, decodeVars, scoreVars, llmVars>>

\* the UI thread requests a cancel: the bit is set, then the Notify is signalled
UICancel ==
    /\ pc \notin {"idle", "done"}
    /\ notifies < MaxNotifies
    /\ ~cancelBit
    /\ cancelBit' = TRUE
    /\ cancelEarly' = (toolState # "ready")
    /\ Deliver
    /\ notifies' = notifies + 1
    /\ UNCHANGED <<pc, exitBit, toolState, now, attempts, invocations, raceNotifies,
                   softRestarts, cancelledTokens, raceStart, warningTimer, warningEmitted,
                   warnings, polled, status, statusAttempt, doneAt>>
    /\ UNCHANGED <<toolResult, pipeConfig, pipeObs, trimVars, patchVars, decodeVars, scoreVars, llmVars>>

\* the UI thread requests an exit: the bit is set, then the Notify is signalled
UIExit ==
    /\ pc \notin {"idle", "done"}
    /\ notifies < MaxNotifies
    /\ ~exitBit
    /\ exitBit' = TRUE
    /\ Deliver
    /\ notifies' = notifies + 1
    /\ UNCHANGED <<pc, cancelBit, toolState, now, attempts, invocations, raceNotifies,
                   softRestarts, cancelledTokens, raceStart, warningTimer, warningEmitted,
                   warnings, polled, status, statusAttempt, doneAt, cancelEarly>>
    /\ UNCHANGED <<toolResult, pipeConfig, pipeObs, trimVars, patchVars, decodeVars, scoreVars, llmVars>>

\* the running tool finishes its work: exec_future will be ready when polled
ToolFinish ==
    /\ pc \in {"race", "warned"}
    /\ toolState = "running"
    /\ ~hang
    /\ toolState' = "ready"
    /\ toolResult' \in {"ok", "err"}
    /\ UNCHANGED <<pc, cancelBit, exitBit, permit, woken, now, attempts, invocations,
                   notifies, raceNotifies, softRestarts, cancelledTokens, raceStart,
                   warningTimer, warningEmitted, warnings, polled, status, statusAttempt,
                   doneAt, cancelEarly>>
    /\ UNCHANGED <<pipeConfig, pipeObs, trimVars, patchVars, decodeVars, scoreVars, llmVars>>

\* the preparation sleep ends; first check of the bits
PrepareDone ==
    /\ pc = "prep"
    /\ TimerDue(prepDeadline)
    /\ IF bits_set THEN Return("Cancelled") /\ UNCHANGED progressLog
       ELSE /\ pc' = "loop"
            /\ progressLog' = Append(progressLog, 20)
            /\ UNCHANGED <<status, statusAttempt, doneAt>>
    /\ UNCHANGED <<cancelBit, exitBit, permit, woken, toolState, now, attempts, invocations,
                   notifies, raceNotifies, softRestarts, cancelledTokens, raceStart,
                   warningTimer, warningEmitted, warnings, polled, cancelEarly, lastWinner>>
    /\ UNCHANGED <<toolResult, pipeConfig, trimVars, patchVars, decodeVars, scoreVars, llmVars>>

\* head of 'outer: clone registry and args, check the bits, write the
\* estimate (start_time is time 0), create the token
LoopHead ==
    /\ pc = "loop"
    /\ IF bits_set
       THEN Return("Cancelled") /\ UNCHANGED <<attempts, progressLog>>
       ELSE /\ pc' = "armed"
            /\ attempts' = attempts + 1
            /\ progressLog' = Append(progressLog, estimated_progress(now))
            /\ UNCHANGED <<status, statusAttempt, doneAt>>
    /\ UNCHANGED <<cancelBit, exitBit, permit, woken, toolState, now, invocations,
                   notifies, raceNotifies, softRestarts, cancelledTokens, raceStart,
                   warningTimer, warningEmitted, warnings, polled, cancelEarly, lastWinner>>
    /\ UNCHANGED <<toolResult, pipeConfig, trimVars, patchVars, decodeVars, scoreVars, llmVars>>

\* token and exec_future are built; check the bits, then create the timers
ArmTimers ==
    /\ pc = "armed"
    /\ IF bits_set
       THEN /\ cancelledTokens' = token_cancel(cancelledTokens, attempts)
            /\ Return("Cancelled")
            /\ UNCHANGED <<raceStart, warningTimer, warningEmitted, polled>>
       ELSE /\ pc' = "race"
            /\ raceStart' = now
            /\ warningTimer' = warning_deadline(now)
            /\ warningEmitted' = FALSE
            /\ polled' = FALSE
            /\ UNCHANGED <<cancelledTokens, status, statusAttempt, doneAt>>
    /\ UNCHANGED <<cancelBit, exitBit, permit, woken, toolState, now, attempts, invocations,
                   notifies, raceNotifies, softRestarts, warnings, cancelEarly>>
    /\ UNCHANGED <<toolResult, pipeConfig, pipeObs, trimVars, patchVars, decodeVars, scoreVars, llmVars>>

\* one poll of select!: the task runs when the select is entered and
\* whenever one of its futures has woken it; start is where the poll order
\* begins, first is what a tool polled for the first time does (stays
\* pending, or returns at once)
SelectPoll ==
    /\ pc = "race"
    /\ ~polled \/ \E b \in 1..4 : BranchReady(b, FALSE)
    /\ \E start \in 1..4,
          first \in (IF hang \/ toolState # "none" THEN {"pending"}
                     ELSE {"pending", "ok", "err"}) :
         LET imm == first # "pending"
             pos == WinnerPos(start, imm)
             result == IF toolState = "ready" THEN toolResult ELSE first
             winner == IF pos = 0 THEN 0 ELSE PollOrder(start)[pos]
             invoked == toolState = "none" /\ ExecPolled(start, imm)
             outcome == NotifiedOutcome(bits_set)
             \* exec_future writes 40 when it is polled for the first time
             log == IF invoked THEN Append(progressLog, 40) ELSE progressLog
         IN /\ invocations' = IF invoked THEN invocations + 1 ELSE invocations
            /\ lastWinner' = IF winner = 0 THEN lastWinner ELSE winner
            /\ IF winner = 0
               THEN /\ polled' = TRUE
                    /\ toolState' = IF invoked THEN "running" ELSE toolState
                    /\ progressLog' = log
                    /\ UNCHANGED <<pc, permit, woken, softRestarts, cancelledTokens,
                                   warningTimer, warningEmitted, warnings, status,
                                   statusAttempt, doneAt, toolResult>>
               ELSE IF winner = Notified
               THEN /\ woken' = FALSE
                    /\ permit' = (permit /\ woken)
                    /\ cancelledTokens' = token_cancel(cancelledTokens, attempts)
                    /\ polled' = FALSE
                    /\ IF outcome = "Cancelled"
                       THEN /\ Return("Cancelled")
                            /\ toolState' = IF invoked THEN "running" ELSE toolState
                            /\ UNCHANGED softRestarts
                       ELSE /\ pc' = "loop"
                            /\ toolState' = "none"
                            /\ softRestarts' = softRestarts + 1
                            /\ UNCHANGED <<status, statusAttempt, doneAt>>
                    /\ toolResult' = IF outcome = "Cancelled" THEN toolResult ELSE "none"
                    /\ progressLog' = log
                    /\ UNCHANGED <<warningTimer, warningEmitted, warnings>>
               ELSE IF winner = Warning
               THEN /\ warningEmitted' = TRUE
                    /\ warningTimer' = NoTimer
                    /\ warnings' = warnings + 1
                    /\ progressLog' = IF current_progress(log) < 90 THEN Append(log, 90)
                                      ELSE log
                    /\ pc' = "warned"
                    /\ polled' = FALSE
                    /\ woken' = FALSE
                    /\ permit' = (permit \/ (woken /\ notifyKind = "one"))
                    /\ toolState' = IF invoked THEN "running" ELSE toolState
                    /\ UNCHANGED <<softRestarts, cancelledTokens, status, statusAttempt,
                                   doneAt, toolResult>>
               ELSE IF winner = TimedOut
               THEN /\ cancelledTokens' = token_cancel(cancelledTokens, attempts)
                    /\ Return("Timeout")
                    /\ progressLog' = log
                    /\ polled' = FALSE
                    /\ toolState' = IF invoked THEN "running" ELSE toolState
                    /\ UNCHANGED <<permit, woken, softRestarts, warningTimer,
                                   warningEmitted, warnings, toolResult>>
               \* exec_future resolves: it writes 90 before it returns the
               \* result; a value is followed by 95, the finalization sleep and 100
               ELSE /\ Return(IF result = "ok" THEN "Success" ELSE "Failure")
                    /\ progressLog' = IF result = "ok" THEN log \o <<90, 95, 100>>
                                      ELSE Append(log, 90)
                    /\ polled' = FALSE
                    /\ toolState' = "ready"
                    /\ toolResult' = result
                    /\ UNCHANGED <<permit, woken, softRestarts, cancelledTokens,
                                   warningTimer, warningEmitted, warnings>>
    /\ UNCHANGED <<cancelBit, exitBit, now, attempts, notifies, raceNotifies, raceStart,
                   cancelEarly>>
    /\ UNCHANGED <<pipeConfig, trimVars, patchVars, decodeVars, scoreVars, llmVars>>

\* after the warning message: `continue`, the select is entered again
WarningContinue ==
    /\ pc = "warned"
    /\ pc' = "race"
    /\ polled' = FALSE
    /\ UNCHANGED <<cancelBit, exitBit, permit, woken, toolState, now, attempts, invocations,
                   notifies, raceNotifies, softRestarts, cancelledTokens, raceStart,
                   warningTimer, warningEmitted, warnings, status, statusAttempt, doneAt,
                   cancelEarly>>
    /\ UNCHANGED <<toolResult, pipeConfig, pipeObs, trimVars, patchVars, decodeVars, scoreVars, llmVars>>

PipelineStep ==
    \/ PrepareDone
    \/ LoopHead
    \/ ArmTimers
    \/ SelectPoll
    \/ WarningContinue

PipeNext ==
    \/ PipelineStep
    \/ Tick
    \/ UINotify
    \/ UICancel
    \/ UIExit
    \/ ToolFinish

PipeSpec == PipeInit /\ [][PipeNext]_vars

\* the runtime polls a task that can make progress, and time passes
PipeLiveSpec == PipeInit /\ [][PipeNext]_vars /\ WF_vars(PipelineStep) /\ WF_vars(Tick)

(***************************************************************************)
(*                        TOOL OUTPUT DECODING                             *)
(* process_tool_output applied to the value a tool returned.               *)
(***************************************************************************)
MaxFiles == 3

Absent == [t |-> "absent"]
One == JNumber("PosInt", 1, FALSE)

\* what the members of the tool's object can hold
ExitCodeValues ==
    { Absent, JNumber("PosInt", 0, FALSE), One, JNumber("NegInt", -1, FALSE),
      JNumber("PosInt", 1, TRUE), JNumber("Float", 1, FALSE), JString(<<"1">>), JNull }
StdoutValues ==
    { Absent, JString(<<>>), JString(<<" ", "\n">>), JString(<<" ", "o", "k", "\n">>),
      JString(<<"o", " ", "k">>), One, JNull }
FileEntries == { JString(<<"a">>), JString(<<"b">>), One }
ModifiedFilesValues ==
    { Absent, JString(<<"a">>) }
        \cup { JArray(items) : items \in UNION { [1..n -> FileEntries] : n \in 0..MaxFiles } }
HasMoreValues == { Absent, JBool(TRUE), JBool(FALSE), JString(<<"t">>), One }

Keys == {"exit_code", "stdout", "modified_files", "has_more"}

\* the object holding the members that are not Absent
ObjectOf(members) ==
    JObject([k \in {key \in Keys : members[key] # Absent} |-> members[k]])

ToolOutputs ==
    { JNull, One, JString(<<"o", "k">>), JArray(<<One>>) }
        \cup { ObjectOf([exit_code |-> e, stdout |-> o, modified_files |-> m,
                         has_more |-> h])
               : e \in ExitCodeValues, o \in StdoutValues, m \in ModifiedFilesValues,
                 h \in HasMoreValues }

DecodeInit ==
    /\ TrimIdle
    /\ PatchIdle
    /\ PipeIdle
    /\ ScoreIdle
    /\ LlmIdle
    /\ toolOutput \in ToolOutputs
    /\ decodedStatus = NoStatus

\* the Ok(output) arm of execute_tool_with_progress
ProcessToolOutput ==
    /\ decodedStatus = NoStatus
    /\ decodedStatus' = process_tool_output(toolOutput)
    /\ UNCHANGED toolOutput
    /\ UNCHANGED <<trimVars, patchVars, pipeVars, scoreVars, llmVars>>

DecodeNext == ProcessToolOutput

DecodeSpec == DecodeInit /\ [][DecodeNext]_vars

(***************************************************************************)
(*                        LLM RESPONSE CACHE                               *)
(* CachedLLMClient (vtcode-core/src/llm/cache.rs). generate takes &mut     *)
(* self, so calls on one client do not overlap; time is in ticks.          *)
(***************************************************************************)
MaxBodies == 2
MaxEntries == 2
MaxTtl == 2
MaxLlmTime == 3
MaxResponses == 2

\* request texts: optional leading whitespace, then a plain prompt, JSON
\* that is no LLMRequest, or the JSON of the LLMRequest with body b
RequestTexts ==
    { lead \o rest :
        lead \in {<<>>, <<" ">>},
        rest \in UNION { { <<"prompt", b>>, <<"{", "}">>, <<"{", b, "}">> }
                         : b \in 1..MaxBodies } }

\* request.trim_start().starts_with('{')
starts_with_brace(text) == TrimStart(text) # <<>> /\ TrimStart(text)[1] = "{"

\* codec::deserialize_request: the LLMRequest in the payload, None for Err
deserialize_request(text) ==
    LET t == TrimStart(text)
    IN IF Len(t) = 3 /\ t[1] = "{" /\ t[3] = "}" THEN Some([body |-> t[2]]) ELSE None

\* generate_cache_key: the SHA-256 digest of the serialized request, one key
\* per request value
generate_cache_key(request) == request.body

\* what the inner client answers: Err, or Ok with one of the responses
InnerResults ==
    {[ok |-> FALSE, response |-> 0]}
        \cup {[ok |-> TRUE, response |-> r] : r \in 1..MaxResponses}

MapPut(m, k, v) == [x \in DOMAIN m \cup {k} |-> IF x = k THEN v ELSE m[x]]
MapRemove(m, K) == [x \in DOMAIN m \ K |-> m[x]]

\* num_to_evict of evict_cache (0 when the size test fails)
num_to_evict(cache, cfg) ==
    IF Cardinality(DOMAIN cache) > cfg.max_entries
    THEN Cardinality(DOMAIN cache) - cfg.max_entries
    ELSE 0

\* the key sets evict_cache may remove: the first num_to_evict entries after
\* the sort by timestamp; entries of equal timestamp keep the order the
\* DashMap iterator yields them in, which is any order
EvictChoices(cache, cfg) ==
    {K \in SUBSET DOMAIN cache :
        /\ Cardinality(K) = num_to_evict(cache, cfg)
        /\ \A k \in K : \A j \in DOMAIN cache \ K :
              cache[k].timestamp <= cache[j].timestamp}

\* timestamp.elapsed() < ttl
Fresh(entry, t, cfg) == t - entry.timestamp < cfg.ttl

LlmInit ==
    /\ TrimIdle
    /\ PatchIdle
    /\ PipeIdle
    /\ DecodeIdle
    /\ ScoreIdle
    /\ llmCache = EmptyMap
    /\ llmConfig \in [enabled : BOOLEAN, max_entries : 0..MaxEntries, ttl : 1..MaxTtl]
    /\ llmNow = 0
    /\ llmPc = "ready"
    /\ lastCall = NoCall

\* a call that returned: what it was given, what it returned, whether the
\* inner client was called, and the cache as the call found it
CallRecord(text, kind, ok, response, called) ==
    [kind |-> kind, text |-> text, ok |-> ok, response |-> response,
     inner_called |-> called, pre |-> llmCache, at |-> llmNow]

\* CachedLLMClient::generate
Generate ==
    /\ llmPc = "ready"
    /\ \E text \in RequestTexts, inner \in InnerResults :
          IF ~llmConfig.enabled \/ ~starts_with_brace(text)
          THEN \* caching disabled, or a plain-text prompt
               /\ lastCall' = CallRecord(text, "bypass", inner.ok, inner.response, TRUE)
               /\ UNCHANGED <<llmCache, llmPc>>
          ELSE IF ~deserialize_request(text).some
          THEN \* deserialize_request(request)?
               /\ lastCall' = CallRecord(text, "invalid", FALSE, 0, FALSE)
               /\ UNCHANGED <<llmCache, llmPc>>
          ELSE LET key == generate_cache_key(deserialize_request(text).v)
               IN IF key \in DOMAIN llmCache /\ Fresh(llmCache[key], llmNow, llmConfig)
                  THEN \* cache hit
                       /\ lastCall' = CallRecord(text, "hit", TRUE,
                                               llmCache[key].response, FALSE)
                       /\ UNCHANGED <<llmCache, llmPc>>
                  ELSE IF key \in DOMAIN llmCache
                  THEN \* expired: self.cache.remove(&key) is called while
                       \* `entry`, the Ref returned by self.cache.get(&key),
                       \* is alive; the Ref holds the read lock of the key's
                       \* shard and remove waits for its write lock
                       /\ llmPc' = "blocked"
                       /\ lastCall' = CallRecord(text, "expired", FALSE, 0, FALSE)
                       /\ UNCHANGED llmCache
                  ELSE IF ~inner.ok
                  THEN \* self.inner.generate(request).await?
                       /\ lastCall' = CallRecord(text, "miss", FALSE, 0, TRUE)
                       /\ UNCHANGED <<llmCache, llmPc>>
                  ELSE LET stored == MapPut(llmCache, key,
                                            [response |-> inner.response,
                                             timestamp |-> llmNow])
                       IN /\ \E K \in EvictChoices(stored, llmConfig) :
                                llmCache' = MapRemove(stored, K)
                          /\ lastCall' = CallRecord(text, "miss", TRUE, inner.response, TRUE)
                          /\ UNCHANGED llmPc
    /\ UNCHANGED <<llmConfig, llmNow>>
    /\ UNCHANGED <<trimVars, patchVars, pipeVars, decodeVars, scoreVars>>

\* time passes between two calls (and while a call is blocked)
LlmTick ==
    /\ llmNow < MaxLlmTime
    /\ llmNow' = llmNow + 1
    /\ UNCHANGED <<llmCache, llmConfig, llmPc, lastCall>>
    /\ UNCHANGED <<trimVars, patchVars, pipeVars, decodeVars, scoreVars>>

LlmNext == Generate \/ LlmTick

LlmSpec == LlmInit /\ [][LlmNext]_vars

(***************************************************************************)
(*                    PROPERTIES OF THE PATCH APPLICATOR                   *)
(***************************************************************************)
\* every path the patch names: update sources, add targets, delete targets,
\* move destinations
Referenced(operations) ==
    {operations[i].path : i \in 1..Len(operations)}
        \cup {operations[i].new_path :
                i \in {j \in 1..Len(operations) : operations[j].new_path # NoPath}}

\* same existence and byte content in two workspaces
SameEntry(fs1, fs2, p) ==
    /\ (p \in DOMAIN fs1) = (p \in DOMAIN fs2)
    /\ (p \in DOMAIN fs1 /\ p \in DOMAIN fs2) => fs1[p].content = fs2[p].content

Returned == ppc = "done"
ReturnedOk == ppc = "done" /\ presult.ok
ReturnedErr == ppc = "done" /\ ~presult.ok

\* C1 (as stated): if apply returns an error, raised while planning, while
\* executing an operation or while committing, and no rollback step failed,
\* then every path referenced by the patch has the existence and the byte
\* content it had immediately before apply was called.
C1_PatchAtomicity ==
    (ReturnedErr /\ presult.rollback = "")
        => \A p \in Referenced(ops) : SameEntry(pfs, pfs0, p)

\* the plan preconditions the operation violates in the workspace fs
AddTargetExists(fs, op) == op.kind = "add" /\ Exists(fs, op.path)
UpdateSourceMissing(fs, op) == op.kind = "update" /\ metadata(fs, op.path) = "notfound"
UpdateSourceIsDirectory(fs, op) == op.kind = "update" /\ metadata(fs, op.path) = "dir"
MoveDestinationExists(fs, op) ==
    /\ op.kind = "update" /\ metadata(fs, op.path) = "file"
    /\ op.new_path # NoPath /\ op.new_path # op.path /\ Exists(fs, op.new_path)
ViolatesPrecondition(fs, op) ==
    \/ AddTargetExists(fs, op)
    \/ UpdateSourceMissing(fs, op)
    \/ UpdateSourceIsDirectory(fs, op)
    \/ MoveDestinationExists(fs, op)
\* the error the violated precondition is reported with
PreconditionError(fs, op) ==
    IF UpdateSourceMissing(fs, op) THEN "MissingFile" ELSE "InvalidOperation"
\* no metadata call of the plan fails for a reason other than NotFound
InspectsCleanly(fs, operations) ==
    /\ faults = 0
    /\ \A i \in 1..Len(operations) :
         /\ metadata(fs, operations[i].path) # "notdir"
         /\ operations[i].new_path # NoPath
                => metadata(fs, operations[i].new_path) # "notdir"

\* C2: if the list is empty or any of its operations violates a plan
\* precondition in the workspace apply is called on, apply returns an error
\* of the plan phase (the first violated precondition's error when every
\* inspection goes through), no operation is executed, nothing is
\* journalled, and the workspace is exactly what it was, even when earlier
\* operations of the list were valid.
C2_PlanFailureNoSideEffect ==
    (ppc # "plan" /\ (ops = <<>> \/ \E i \in 1..Len(ops) : ViolatesPrecondition(pfs0, ops[i])))
        => /\ ReturnedErr
           /\ presult.phase = "plan"
           /\ presult.err \in {"NoOperations", "InvalidOperation", "MissingFile", "Io:inspect"}
           /\ ops = <<>> => presult.err = "NoOperations"
           /\ (ops # <<>> /\ InspectsCleanly(pfs0, ops))
                => LET first == CHOOSE i \in 1..Len(ops) :
                                   /\ ViolatesPrecondition(pfs0, ops[i])
                                   /\ \A j \in 1..(i - 1) : ~ViolatesPrecondition(pfs0, ops[j])
                   IN presult.err = PreconditionError(pfs0, ops[first])
           /\ executed = <<>>
           /\ journal = <<>>
           /\ results = <<>>
           /\ pfs = pfs0

\* a plan that failed at its second operation after a valid first one
C2_Witness ==
    /\ ReturnedErr
    /\ presult.phase = "plan"
    /\ Len(ops) >= 2
    /\ ~ViolatesPrecondition(pfs0, ops[1])
    /\ ViolatesPrecondition(pfs0, ops[2])
    /\ ops[1].kind = "add"
    /\ pfs = pfs0

\* C3: whenever apply returns Ok the journal is empty and no temporary
\* sibling (snapshot or atomic-write temp file) is left in the workspace.
C3_CommitRemovesBackups ==
    ReturnedOk
        => /\ journal = <<>>
           /\ \A p \in DOMAIN pfs : ~IsTempPath(p)

\* a successful batch that deleted one entry and updated-and-moved another
C3_Witness ==
    /\ ReturnedOk
    /\ journal = <<>>
    /\ \E i \in 1..Len(plan) : plan[i].kind = "delete" /\ results[i].detail = "applied"
    /\ \E i \in 1..Len(plan) :
         plan[i].kind = "update" /\ plan[i].new_path # NoPath
            /\ results[i].detail = "applied"

(***************************************************************************)
(*                    PROPERTIES OF THE TOOL PIPELINE                      *)
(***************************************************************************)
Finished == pc = "done"
\* the UI thread has sent nothing and set nothing
Quiet == notifies = 0 /\ ~cancelBit /\ ~exitBit

\* C4 (as stated): in every interleaving with the UI thread, if the cancel
\* bit is set at some moment between the start of the invocation and the
\* tool future resolving, the terminal status is Cancelled.
C4_CancelBitGivesCancelled ==
    (Finished /\ cancelEarly) => status = "Cancelled"

\* C5: with a ceiling configured, a tool future that never completes and a
\* silent UI thread, the pipeline eventually returns Timeout; and a Timeout
\* is never returned before the ceiling has elapsed since the timers of the
\* attempt were created.
C5_TimeoutAtCeiling ==
    /\ [](status = "Timeout"
            => /\ ceiling # NoCeiling
               /\ doneAt - raceStart >= ceiling
               /\ statusAttempt \in cancelledTokens)
    /\ ([](hang /\ ceiling # NoCeiling /\ Quiet) => <>(status = "Timeout"))

\* a hanging tool timed out after its warning, with nothing from the UI thread
C5_Witness ==
    /\ Finished
    /\ status = "Timeout"
    /\ hang
    /\ Quiet
    /\ ceiling = MaxCeiling
    /\ warnings = 1
    /\ invocations = 1

\* exactly one signal was sent: a notification without a bit, which arrived
\* while the select was waiting
OneSoftNotification ==
    /\ notifies = 1 /\ raceNotifies = 1 /\ ~cancelBit /\ ~exitBit

TerminalStatuses == {"Success", "Failure", "Timeout", "Cancelled"}
\* exec_future completed the last select, with the given result
ExecWon(result) == lastWinner = Exec /\ toolState = "ready" /\ toolResult = result

\* C23: an invocation that returns yields exactly one terminal status among
\* Success, Failure, Timeout and Cancelled; it is Failure exactly when the
\* tool future resolved with an error and won the race, Success exactly when
\* it resolved with a value and won; an error of the tool ends the invocation
\* with a status like any other result.
C23_ExactlyOneTerminalStatus ==
    /\ [](Finished <=> status # "none")
    /\ [](Finished => /\ status \in TerminalStatuses
                      /\ status = "Failure" <=> ExecWon("err")
                      /\ status = "Success" <=> ExecWon("ok"))
    /\ [][Finished => (pc' = "done" /\ status' = status)]_vars

\* the tool fails on its first poll, in the second attempt
C23_Witness ==
    /\ Finished
    /\ status = "Failure"
    /\ ExecWon("err")
    /\ softRestarts = 1
    /\ invocations = 1

\* the tokens created so far that have not been cancelled (attempt k creates
\* token k)
LiveTokens == (1..attempts) \ cancelledTokens

\* C28: whenever the pipeline has returned Timeout or Cancelled, or is back at
\* the head of 'outer after a soft cancel, every token created so far has
\* been cancelled; at most one uncancelled token exists at any time.
C28_NoLiveTokenLeaked ==
    /\ status \in {"Timeout", "Cancelled"} => LiveTokens = {}
    /\ pc = "loop" => LiveTokens = {}
    /\ Cardinality(LiveTokens) <= 1

\* a timeout in the second attempt, after a soft cancel ended the first
C28_Witness ==
    /\ Finished
    /\ status = "Timeout"
    /\ softRestarts = 1
    /\ attempts = 2
    /\ cancelledTokens = {1, 2}

\* C29: during one invocation the timeout warning is emitted at most once,
\* however long the tool runs and however often a soft cancel restarts the
\* execution, and emitting it does not end the execution.
C29_WarningSingleShot ==
    /\ warnings <= 1
    /\ pc = "warned" => status = "none"

\* the attempt armed a warning timer: a ceiling is configured,
\* 0 < warning_fraction < 1 and the threshold is not zero
WarningTimerArmed ==
    /\ ceiling # NoCeiling
    /\ warnPct > 0 /\ warnPct < 100
    /\ (ceiling * warnPct) \div 100 > 0

\* C30: whenever the pipeline returns Timeout for an attempt that armed a
\* warning timer, the warning was emitted earlier in that attempt, whatever
\* order select! polled its branches in; no warning is emitted once the
\* terminal status is decided.
C30_WarningPrecedesTimeout ==
    /\ [](status = "Timeout" /\ WarningTimerArmed => warningEmitted)
    /\ [][Finished => warnings' = warnings]_vars

\* prefix order of the percentages written
NonDecreasing(log) == \A i \in 1..(Len(log) - 1) : log[i] <= log[i + 1]

\* C25: the percentages written to the reporter over one invocation never
\* decrease (prepare 5, setup 20, execute 30..85 and 40, process results 90,
\* finalize 95 and 100), also after the timeout warning and across a
\* soft-cancel restart; 100 is written only after the tool future resolved
\* with a value.
C25_ProgressInLifecycleOrder ==
    /\ NonDecreasing(progressLog)
    /\ (\E i \in 1..Len(progressLog) : progressLog[i] = 100) => ExecWon("ok")

\* the pipeline stands at one of its checks before the race: after the
\* preparation sleep, at the head of 'outer, before the select
AtCheck == pc \in {"prep", "loop", "armed"}

\* C31: if the cancel or the exit bit is set when the pipeline reaches one of
\* its checks before the race, it returns Cancelled and the tool is not
\* invoked in that attempt; with a bit set before the first check the tool
\* is never invoked at all.
C31_PhaseBoundaryChecks ==
    /\ [][(AtCheck /\ pc' # pc /\ (cancelBit \/ exitBit))
            => /\ pc' = "done" /\ status' = "Cancelled"
               /\ invocations' = invocations
               /\ toolState' = toolState]_vars
    /\ [](AtCheck => toolState = "none")
    /\ [][(pc = "prep" /\ (cancelBit \/ exitBit)) => invocations' = 0]_vars
    /\ [](Finished /\ attempts = 0 => invocations = 0 /\ status = "Cancelled")

\* the exit bit alone, found by the check just before the select: the token
\* of the attempt is cancelled and the tool was never invoked
C31_Witness ==
    /\ Finished
    /\ status = "Cancelled"
    /\ exitBit /\ ~cancelBit
    /\ attempts = 1
    /\ lastWinner = 0
    /\ cancelledTokens = {1}
    /\ invocations = 0

\* the timers of a further attempt are created after a soft-cancel restart
RearmAfterRestart ==
    /\ pc = "armed" /\ pc' = "race"
    /\ attempts > 1
    /\ ceiling # NoCeiling
    /\ ~cancelBit /\ ~exitBit

\* C37: the ceiling bounds the whole invocation: it is measured from the
\* first entry into the race, and a soft-cancel restart does not grant a
\* fresh ceiling, so the time at which the timeout timer is due is the same
\* after a restart as before it.
C37_CeilingBoundsInvocation ==
    [][RearmAfterRestart => raceStart' + ceiling = raceStart + ceiling]_vars

Decoded == decodedStatus # NoStatus
HasMember(key) == toolOutput.t = "object" /\ key \in DOMAIN toolOutput.v
Member(key) == toolOutput.v[key]
IsStringMember(key) == HasMember(key) /\ Member(key).t = "string"
\* the positions of the characters of a string that are not white space
Inked(chars) == {i \in 1..Len(chars) : chars[i] \notin {" ", "\t", "\n"}}
FirstInked(chars) == CHOOSE i \in Inked(chars) : \A j \in Inked(chars) : i <= j
LastInked(chars) == CHOOSE i \in Inked(chars) : \A j \in Inked(chars) : i >= j
\* exit_code is a JSON integer in the range of i64 other than 0
NonZeroExitCode ==
    /\ HasMember("exit_code")
    /\ Member("exit_code").t = "number"
    /\ Member("exit_code").n # "Float"
    /\ ~Member("exit_code").wide
    /\ Member("exit_code").v # 0

\* C24: process_tool_output yields Success for every JSON value;
\* command_success is false only when exit_code is present as an integer
\* other than 0; stdout is the trimmed string, absent when the member is
\* missing, not a string or blank; modified_files holds exactly the string
\* entries of the array in their order, or nothing; has_more is the boolean
\* member or false; the value itself is passed through unchanged.
C24_OutputDecoding ==
    Decoded =>
        /\ decodedStatus.kind = "Success"
        /\ decodedStatus.output = toolOutput
        /\ decodedStatus.command_success = ~NonZeroExitCode
        /\ IF IsStringMember("stdout") /\ Inked(Member("stdout").v) # {}
           THEN LET chars == Member("stdout").v
                IN /\ decodedStatus.stdout.some
                   /\ decodedStatus.stdout.v =
                         SubSeq(chars, FirstInked(chars), LastInked(chars))
           ELSE ~decodedStatus.stdout.some
        /\ IF HasMember("modified_files") /\ Member("modified_files").t = "array"
           THEN LET strings == SelectSeq(Member("modified_files").v,
                                         LAMBDA entry : entry.t = "string")
                IN /\ Len(decodedStatus.modified_files) = Len(strings)
                   /\ \A i \in 1..Len(strings) :
                         decodedStatus.modified_files[i] = strings[i].v
           ELSE decodedStatus.modified_files = <<>>
        /\ decodedStatus.has_more =
              (HasMember("has_more") /\ Member("has_more") = JBool(TRUE))

\* a failed command whose output needs trimming, with a non-string entry
\* among its modified files and more results to come
C24_Witness ==
    /\ Decoded
    /\ ~decodedStatus.command_success
    /\ decodedStatus.stdout = Some(<<"o", "k">>)
    /\ decodedStatus.modified_files = <<<<"b">>, <<"a">>>>
    /\ Len(toolOutput.v["modified_files"].v) = 3
    /\ decodedStatus.has_more

\* the operation whose effect was an error: the last one started, once the
\* runner has left the loop through the Err arm
FailedInExecute ==
    ppc = "rollback" \/ (ppc = "done" /\ presult.phase = "execute")

\* C14: execute_plan runs the prepared operations one at a time in list
\* order: the k-th operation started is operation k of the list, it starts
\* only after operations 1..k-1 have each completed as applied or skipped,
\* and after the first failing operation no later operation is started.
C14_OperationsInListOrder ==
    /\ \A k \in 1..Len(executed) : executed[k] = k
    /\ \A k \in 1..Len(results) : results[k].current = k
    /\ Len(executed) <= Len(ops)
    /\ IF FailedInExecute
       THEN Len(results) = Len(executed) - 1
       ELSE Len(results) = Len(executed)

\* a three-operation batch whose second operation failed after the first
\* was applied: the third never started
C14_Witness ==
    /\ ppc = "done"
    /\ presult.phase = "execute"
    /\ Len(ops) = 3
    /\ executed = <<1, 2>>
    /\ Len(results) = 1
    /\ results[1].detail = "applied"

\* the results of the operations that were applied (and so journalled), in
\* the order of their application
AppliedResults == SelectSeq(results, LAMBDA r : r.detail = "applied")

\* the journal holds, oldest first, the undo records of the first n applied
\* operations
JournalIsPrefixOfApplied ==
    /\ Len(journal) <= Len(AppliedResults)
    /\ \A k \in 1..Len(journal) : journal[k].path = plan[AppliedResults[k].current].path

\* C15: when an operation fails the journalled operations are undone in
\* exact reverse order of their application (each rollback step takes the
\* youngest remaining record), every record is attempted even when an
\* earlier undo step has failed, and the journal is empty when the error is
\* returned.
C15_RollbackReverseOrder ==
    /\ [](ppc = "execute" => (JournalIsPrefixOfApplied /\ Len(journal) = Len(AppliedResults)))
    /\ [](ppc = "rollback" => JournalIsPrefixOfApplied)
    /\ [][(ppc = "rollback" /\ journal # <<>>)
            => /\ journal' = SubSeq(journal, 1, Len(journal) - 1)
               /\ ppc' = "rollback"
               /\ \E f \in {"none", "remove", "restore"} :
                     pfs' = StateRollback(pfs, journal[Len(journal)], f).fs]_vars
    /\ []((ppc = "done" /\ presult.phase = "execute") => journal = <<>>)

\* two operations were applied, the third failed, the undo of the second
\* failed, and the first (a delete) was undone all the same
C15_Witness ==
    /\ ppc = "done"
    /\ presult.phase = "execute"
    /\ presult.rollback # ""
    /\ Len(AppliedResults) = 2
    /\ journal = <<>>
    /\ plan[1].kind = "delete"
    /\ Exists(pfs0, plan[1].path)
    /\ SameEntry(pfs, pfs0, plan[1].path)

\* every I/O call of an operation or of an undo step that can be made to fail
IoCalls ==
    {"none", "read", "inspect", "snapshot", "create_dir_all", "create", "write",
     "flush", "set_permissions", "rename", "remove", "restore"}

\* executor.execute(prepared): the effect of a prepared operation
Execute(fs, op, ts, f) ==
    IF op.kind = "add" THEN AddApply(fs, op, ts, f)
    ELSE IF op.kind = "delete" THEN DeleteApply(fs, op, ts, f)
    ELSE UpdateApply(fs, op, ts, f)

\* C16: when an operation of the batch fails, apply returns that operation's
\* own error, alone if every undo step succeeded and together with the first
\* rollback error (PatchError::Recovery) if an undo step failed; the error
\* of a later operation is never reported.
C16_ErrorReporting ==
    /\ [][(ppc = "execute" /\ ppc' = "rollback")
            => \E f \in IoCalls :
                 /\ Execute(pfs, plan[nextOp], clock, f).status = "failed"
                 /\ origErr' = Execute(pfs, plan[nextOp], clock, f).err
                 /\ origErr' # ""
                 /\ rollbackErr' = ""]_vars
    /\ [][origErr # "" => origErr' = origErr]_vars
    /\ [][(ppc = "rollback" /\ journal # <<>>)
            => \E f \in IoCalls :
                 LET r == StateRollback(pfs, journal[Len(journal)], f)
                 IN /\ pfs' = r.fs
                    /\ rollbackErr' = IF rollbackErr # "" THEN rollbackErr
                                      ELSE IF r.ok THEN "" ELSE r.err]_vars
    /\ []((ppc = "done" /\ presult.phase = "execute")
            => /\ ~presult.ok
               /\ presult.err = origErr
               /\ presult.rollback = rollbackErr)

\* a Recovery error: the operation's error together with a rollback error
C16_Witness ==
    /\ ppc = "done"
    /\ presult.phase = "execute"
    /\ presult.err \in {"MissingFile", "SegmentNotFound"}
    /\ presult.rollback \in {"Io:delete", "Io:restore"}

\* the runner is about to execute an AddFile
AddIsNext == ppc = "execute" /\ nextOp <= Len(plan) /\ plan[nextOp].kind = "add"

\* C17: whenever an AddFile operation executes, its target path does not
\* exist at that moment, also when an earlier operation of the batch created
\* it; an AddFile that finds its target present fails and leaves the target
\* as it was.
C17_AddNeverReplaces ==
    [][(AddIsNext /\ Exists(pfs, plan[nextOp].path))
        => /\ ppc' = "rollback"
           /\ pfs'[plan[nextOp].path] = pfs[plan[nextOp].path]]_vars

\* apply was called with a single UpdateFile and returned Ok
SingleUpdateOk == ReturnedOk /\ Len(ops) = 1 /\ ops[1].kind = "update"

\* where a successful UpdateFile leaves the patched content
UpdateDestination(op) == IF MoveDestination(op) = NoPath THEN op.path ELSE op.new_path

\* the content of the source at the time of the call with all chunks applied
Patched(op) == ApplyChunks(pfs0[op.path].content, op.chunks, 1).text

\* path p is the same entry, with the same content and mode, before and after
Untouched(p) ==
    /\ (p \in DOMAIN pfs) = (p \in DOMAIN pfs0)
    /\ (p \in DOMAIN pfs /\ p \in DOMAIN pfs0) => pfs[p] = pfs0[p]

\* what UpdateFile leaves at its source and destination
UpdateOutcome(op) ==
    /\ MoveDestination(op) # NoPath => ~Exists(pfs, op.path)
    /\ Exists(pfs, UpdateDestination(op))
    /\ pfs[UpdateDestination(op)].kind = "file"
    /\ pfs[UpdateDestination(op)].content = Patched(op)

\* C18 (as stated): after a successful apply of UpdateFile with a move_to
\* different from path, path no longer exists and the destination holds the
\* original content with all chunks applied; without move_to (or with
\* move_to equal to path) path holds the patched content; in both cases no
\* path other than the source and the destination changes.
C18_UpdateWithRename_AsStated ==
    SingleUpdateOk =>
        /\ UpdateOutcome(ops[1])
        /\ \A p \in (DOMAIN pfs \cup DOMAIN pfs0) \ {ops[1].path, UpdateDestination(ops[1])} :
              Untouched(p)

\* C18 (amended): the same, except that the directories missing on the way
\* to the destination are created; no other path changes.
C18_UpdateWithRename ==
    SingleUpdateOk =>
        /\ UpdateOutcome(ops[1])
        /\ \A p \in (DOMAIN pfs \cup DOMAIN pfs0) \ {ops[1].path, UpdateDestination(ops[1])} :
              \/ Untouched(p)
              \/ /\ p \in Ancestors(UpdateDestination(ops[1]))
                 /\ p \notin DOMAIN pfs0
                 /\ p \in DOMAIN pfs /\ pfs[p] = DirNode

\* a successful update moved into a directory that did not exist before
C18_Witness ==
    /\ SingleUpdateOk
    /\ MoveDestination(ops[1]) # NoPath
    /\ Parent(ops[1].new_path) # <<>>
    /\ Parent(ops[1].new_path) \notin DOMAIN pfs0
    /\ pfs[ops[1].new_path].content = <<"beta">>

\* the last operation of the batch is an UpdateFile that stays in place
LastIsUpdateInPlace ==
    /\ ops # <<>>
    /\ ops[Len(ops)].kind = "update"
    /\ MoveDestination(ops[Len(ops)]) = NoPath

\* C19: after a successful UpdateFile without move_to the resulting file has
\* the permission bits the source file had when the batch was planned,
\* read-only included, although its content went through a new temp file.
C19_PermissionsPreserved ==
    (ReturnedOk /\ LastIsUpdateInPlace) =>
        /\ Exists(pfs, ops[Len(ops)].path)
        /\ pfs[ops[Len(ops)].path].mode = pfs0[ops[Len(ops)].path].mode

\* a read-only file was updated in place: new content, still read-only
C19_Witness ==
    /\ ReturnedOk
    /\ LastIsUpdateInPlace
    /\ pfs0[ops[Len(ops)].path].mode = "ro"
    /\ pfs[ops[Len(ops)].path].mode = "ro"
    /\ pfs[ops[Len(ops)].path].content # pfs0[ops[Len(ops)].path].content

\* the runner is about to execute an UpdateFile that moves its file
MovingUpdateIsNext ==
    /\ ppc = "execute" /\ nextOp <= Len(plan) /\ plan[nextOp].kind = "update"
    /\ MoveDestination(plan[nextOp]) # NoPath

\* C26: whenever the write of an UpdateFile with move_to different from path
\* executes, the destination does not exist at that moment, also when an
\* earlier operation of the batch created it: such an update fails and the
\* destination is left as it was.
C26_MoveNeverReplaces ==
    [][(MovingUpdateIsNext /\ Exists(pfs, plan[nextOp].new_path))
        => /\ ppc' = "rollback"
           /\ Exists(pfs', plan[nextOp].new_path)
           /\ pfs'[plan[nextOp].new_path] = pfs[plan[nextOp].new_path]]_vars

\* the operation that is about to execute writes a file atomically
WriteIsNext ==
    /\ ppc = "execute" /\ nextOp <= Len(plan) /\ plan[nextOp].kind \in {"add", "update"}
\* the target of that write and the sibling temp file AtomicWriter::create
\* opens for it
WriteTarget == UpdateDestination(plan[nextOp])
WriteTemp ==
    IF plan[nextOp].kind = "add" THEN temporary_path(WriteTarget, clock)
    ELSE temporary_path(WriteTarget, clock + resolution)
\* the errors of the steps of an atomic write after the temp file was opened
WriteErrors == {"Io:write", "Io:flush", "Io:set permissions", "Io:rename"}

\* C27: when an atomic write fails while writing, flushing, setting the
\* permissions or renaming, then at the return of the error the sibling temp
\* file no longer exists and the target has its prior existence and content.
C27_TempFileCleanedUp ==
    [][(WriteIsNext /\ ppc' = "rollback" /\ origErr' \in WriteErrors)
        => /\ ~Exists(pfs', WriteTemp)
           /\ Exists(pfs', WriteTarget) <=> Exists(pfs, WriteTarget)
           /\ Exists(pfs, WriteTarget) => pfs'[WriteTarget] = pfs[WriteTarget]]_vars

\* operation i adds a path that exists in the workspace apply was called on
\* and that an earlier operation of the batch deletes
DeleteThenAdd(i) ==
    /\ AddTargetExists(pfs0, ops[i])
    /\ \E j \in 1..(i - 1) : ops[j].kind = "delete" /\ ops[j].path = ops[i].path

\* operation i updates a path that is absent from the workspace apply was
\* called on and that an earlier update of the batch moves its file to
MoveThenUpdate(i) ==
    /\ UpdateSourceMissing(pfs0, ops[i])
    /\ \E j \in 1..(i - 1) : ops[j].kind = "update" /\ ops[j].new_path = ops[i].path

\* operation i is the first of the batch to violate a plan precondition,
\* and every inspection of the plan goes through
FirstViolation(i) ==
    /\ InspectsCleanly(pfs0, ops)
    /\ \A j \in 1..(i - 1) : ~ViolatesPrecondition(pfs0, ops[j])

\* C35: planning is evaluated against the workspace as it is before apply
\* only, never against the effects of earlier operations of the batch:
\* [DeleteFile p, AddFile p] with p existing is rejected with
\* InvalidOperation and p is untouched; [UpdateFile a move_to b, UpdateFile b]
\* with b absent is rejected with MissingFile and a is untouched.
C35_PlanSeesPreApplyWorkspace ==
    ppc # "plan" =>
        \A i \in 2..Len(ops) :
            /\ DeleteThenAdd(i) =>
                  /\ ReturnedErr /\ presult.phase = "plan"
                  /\ FirstViolation(i) => presult.err = "InvalidOperation"
                  /\ executed = <<>>
                  /\ pfs = pfs0
            /\ MoveThenUpdate(i) =>
                  /\ ReturnedErr /\ presult.phase = "plan"
                  /\ FirstViolation(i) => presult.err = "MissingFile"
                  /\ executed = <<>>
                  /\ pfs = pfs0

\* the batch [UpdateFile a move_to d/a, UpdateFile d/a ...] on a workspace
\* with a and without d/a was rejected with MissingFile
C35_Witness ==
    /\ Len(ops) = 2
    /\ ops[1] = UpdateFile(PA, PDA, HitChunk)
    /\ MoveThenUpdate(2)
    /\ PA \in DOMAIN pfs0
    /\ ReturnedErr /\ presult.err = "MissingFile"
    /\ pfs = pfs0

\* the snapshots the journal holds
LiveBackups == {i \in 1..Len(journal) : journal[i].backup # NoPath}

\* the paths the batch names
PatchTargets ==
    {ops[k].path : k \in 1..Len(ops)}
        \cup {ops[k].new_path : k \in {x \in 1..Len(ops) : ops[x].kind = "update"}}

\* C36: within one apply every path generated by temporary_path is distinct
\* from every other live temp or backup path and from every patch target:
\* two journalled snapshots never share a path (a second snapshot never
\* replaces a first), no snapshot sits at a path the batch names, and the
\* temp file of an atomic write that went through was not opened at the path
\* of a journalled snapshot, the operation's own included (it never
\* truncates or replaces a live snapshot).
C36_TempPathsDistinct ==
    /\ [](/\ \A i, j \in LiveBackups : i # j => journal[i].backup # journal[j].backup
          /\ \A i \in LiveBackups : journal[i].backup \notin PatchTargets)
    /\ [][(WriteIsNext /\ Len(journal') > Len(journal))
            => \A i \in 1..Len(journal') :
                  journal'[i].backup # NoPath => journal'[i].backup # WriteTemp]_vars

(***************************************************************************)
(*                    PROPERTIES OF THE CONTEXT TRIMMER                    *)
(***************************************************************************)
LastOf(h) == h[Len(h)]
Trimmed == lastOp # "none"

\* C7 (as stated): for every non-empty history and every config, also with
\* preserve_recent_turns = 0, each of the three strategies leaves the history
\* non-empty with the original last message at its end.
C7_LastNeverEvicted_AnyConfig ==
    (Trimmed /\ before # <<>>) => (history # <<>> /\ LastOf(history) = LastOf(before))

\* C7 (amended): for every non-empty history and every config with
\* preserve_recent_turns >= 1 (max_tokens = 0 included), each of the three
\* strategies leaves the history non-empty with the original last message
\* at its end.
C7_LastNeverEvicted ==
    (Trimmed /\ before # <<>> /\ config.preserve_recent_turns >= 1)
        => (history # <<>> /\ LastOf(history) = LastOf(before))

\* a prune call that removed something while the last message was itself a
\* tool payload outside the tool retention set
C7_Witness ==
    /\ lastOp = "prune"
    /\ config.preserve_recent_turns >= 1
    /\ removed > 0
    /\ is_tool_response(LastOf(before))
    /\ ~config.tool_aware_retention

\* C8: with preserve_recent_turns >= 1 and len > preserve_recent_turns, after
\* enforce_unified_context_window the final message is the original final
\* message, every field unchanged, whatever max_tokens and the scores are.
C8_TrimPreservesTail ==
    (lastOp = "enforce" /\ config.preserve_recent_turns >= 1
        /\ Len(before) > config.preserve_recent_turns)
        => (history # <<>> /\ LastOf(history) = LastOf(before))

\* an enforce call that had to evict from the preserved region: everything
\* but the last message went, and the scores were in play
C8_Witness ==
    /\ lastOp = "enforce"
    /\ config.preserve_recent_turns >= 2
    /\ Len(before) > config.preserve_recent_turns
    /\ Len(history) = 1
    /\ config.semantic_compression /\ analyzer

\* C9 (as stated): enforce_unified_context_window never increases the total
\* estimate, and when the total before exceeds max_tokens and a message
\* outside the preserved tail (the last preserve_recent_turns messages)
\* exists, the total after is strictly smaller.
C9_TrimReducesTokens_AsStated ==
    lastOp = "enforce" =>
        /\ TotalTokens(history) <= TotalTokens(before)
        /\ (TotalTokens(before) > config.max_tokens
              /\ Len(before) > config.preserve_recent_turns)
            => TotalTokens(history) < TotalTokens(before)

\* C9 (amended): enforce_unified_context_window never increases the total
\* estimate, and when the total before exceeds max_tokens, a message outside
\* the preserved tail exists and the history holds more than one message,
\* the total after is strictly smaller.
C9_TrimReducesTokens ==
    lastOp = "enforce" =>
        /\ TotalTokens(history) <= TotalTokens(before)
        /\ (TotalTokens(before) > config.max_tokens
              /\ Len(before) > config.preserve_recent_turns
              /\ Len(before) > 1)
            => TotalTokens(history) < TotalTokens(before)

\* an over-budget history with an early region, strictly reduced
C9_Witness ==
    /\ lastOp = "enforce"
    /\ TotalTokens(before) > config.max_tokens
    /\ Len(before) > config.preserve_recent_turns
    /\ Len(before) > 1
    /\ TotalTokens(history) < TotalTokens(before)
    /\ Len(history) >= 2

\* C10: after enforce_unified_context_window either the total estimate is
\* within max_tokens or exactly one message, the original last one, remains.
C10_BudgetMetWhenPossible ==
    lastOp = "enforce" =>
        \/ TotalTokens(history) <= config.max_tokens
        \/ (Len(history) = 1 /\ history[1] = LastOf(before))

\* the budget cannot be met: a longer history was cut down to its last message,
\* which alone exceeds max_tokens
C10_Witness ==
    /\ lastOp = "enforce"
    /\ Len(before) >= 3
    /\ Len(history) = 1
    /\ TotalTokens(history) > config.max_tokens
    /\ config.max_tokens > 0

RECURSIVE IsSubsequenceFrom(_, _, _, _)
\* s[i..] can be read off t[j..] from left to right
IsSubsequenceFrom(s, t, i, j) ==
    IF i > Len(s) THEN TRUE
    ELSE IF j > Len(t) THEN FALSE
    ELSE IF s[i] = t[j] THEN IsSubsequenceFrom(s, t, i + 1, j + 1)
    ELSE IsSubsequenceFrom(s, t, i, j + 1)
IsSubsequence(s, t) == IsSubsequenceFrom(s, t, 1, 1)

\* the message at position i of `before` is gone from `history`
Evicted(i) == \A k \in 1..Len(history) : history[k] # before[i]

\* C11: after each of prune_unified_tool_responses,
\* apply_aggressive_trim_unified and enforce_unified_context_window the
\* history is a subsequence of the input history: the survivors are
\* unmodified, keep their relative order, and nothing is duplicated or inserted.
C11_SurvivorsKeepOrder ==
    Trimmed => IsSubsequence(history, before)

\* a call that removed a message from between two survivors
C11_Witness ==
    /\ Trimmed
    /\ Len(before) >= 3
    /\ Len(history) >= 2
    /\ \E i \in 2..(Len(before) - 1) :
          /\ Evicted(i)
          /\ ~Evicted(i - 1)
          /\ ~Evicted(i + 1)

\* the scores enforce_unified_context_window sorted the candidates of the
\* last call by
ScoresBefore == compute_semantic_scores(before, analyzer, config)

\* C12: in enforce_unified_context_window eviction inside the early region
\* [0, len - preserve_recent_turns) follows (score ascending, index
\* ascending): when an early message is evicted, every early message with a
\* strictly lower score, or an equal score and a lower index, is evicted as
\* well; so of a scored code message and a score-0 message of the early
\* region, the score-0 one goes first.
C12_EvictionFollowsScoreOrder ==
    lastOp = "enforce" =>
        \A i, j \in EarlyCandidates(Len(before), config) :
            (Evicted(i)
               /\ (\/ ScoresBefore[j] < ScoresBefore[i]
                   \/ (ScoresBefore[j] = ScoresBefore[i] /\ j < i)))
                => Evicted(j)

\* an older code-bearing message survived while a younger score-0 message of
\* the early region was evicted
C12_Witness ==
    /\ lastOp = "enforce"
    /\ config.semantic_compression /\ analyzer
    /\ \E i, j \in EarlyCandidates(Len(before), config) :
          /\ i < j
          /\ ScoresBefore[i] > 0
          /\ ScoresBefore[j] = 0
          /\ Evicted(j)
          /\ ~Evicted(i)

\* assistant message a carries a tool call whose id is tool message t's
\* tool_call_id
MatchesCall(a, t) ==
    /\ a.role = "assistant"
    /\ \E c \in 1..Len(a.tool_calls) : a.tool_calls[c].id = t.tool_call_id

\* every tool message is preceded by an assistant message carrying its call
WellPaired(h) ==
    \A i \in 1..Len(h) :
        is_tool_response(h[i]) => \E j \in 1..(i - 1) : MatchesCall(h[j], h[i])

\* C13 (as stated): if every tool message of the history follows an
\* assistant message carrying the call with its tool_call_id, the same holds
\* after each of the three strategies.
C13_PairingPreserved_AsStated ==
    (Trimmed /\ WellPaired(before)) => WellPaired(history)

\* C13 (amended): starting from such a history, a tool message that survives
\* a strategy still follows a matching assistant message whenever one of the
\* matching assistant messages that preceded it survives too; a tool message
\* all of whose matching assistant messages were evicted stays as an orphan.
C13_PairingPreserved ==
    (Trimmed /\ WellPaired(before)) =>
        \A i \in 1..Len(before) :
            (/\ is_tool_response(before[i])
             /\ ~Evicted(i)
             /\ \E j \in 1..(i - 1) : MatchesCall(before[j], before[i]) /\ ~Evicted(j))
            => \E k \in 1..Len(history) :
                 /\ history[k] = before[i]
                 /\ \E l \in 1..(k - 1) : MatchesCall(history[l], history[k])

\* a message was removed and a surviving tool message still follows the
\* surviving assistant message that carries its call
C13_Witness ==
    /\ Trimmed
    /\ WellPaired(before)
    /\ removed > 0
    /\ \E k \in 2..Len(history) :
          /\ is_tool_response(history[k])
          /\ \E l \in 1..(k - 1) : MatchesCall(history[l], history[k])

\* C20: prune_unified_tool_responses removes a message if and only if it is a
\* tool payload (tool role, or non-empty tool_calls), its index is below
\* len - preserve_recent_turns, and it is not in the tool-retention set; plain
\* user, assistant and system text is never removed; and the value returned
\* is the number of messages removed (len before minus len after).
C20_PruneRemovesExactly ==
    lastOp = "prune" =>
        /\ \A i \in 1..Len(before) :
              Evicted(i) <=>
                  /\ is_tool_response(before[i]) \/ has_tool_calls(before[i])
                  /\ i <= Len(before) - config.preserve_recent_turns
                  /\ i \notin tool_retention_indices(before, config)
        /\ \A i \in 1..Len(before) :
              (~is_tool_response(before[i]) /\ ~has_tool_calls(before[i])) => ~Evicted(i)
        /\ removed = Len(before) - Len(history)

\* a prune call that removed one old tool payload, kept another old one
\* because of the retention set, and kept old plain text
C20_Witness ==
    /\ lastOp = "prune"
    /\ removed > 0
    /\ \E i, j \in 1..(Len(before) - config.preserve_recent_turns) :
          /\ i \in tool_retention_indices(before, config)
          /\ ~Evicted(i)
          /\ ~is_tool_response(before[j]) /\ ~has_tool_calls(before[j])
          /\ ~Evicted(j)

\* the k youngest positions of a set of positions
MostRecent(S, k) == {i \in S : Cardinality({j \in S : j > i}) < k}

ResponsesBefore == {i \in 1..Len(before) : is_tool_response(before[i])}
CallsBefore == {i \in 1..Len(before) : has_tool_calls(before[i])}
\* the tool payloads outside the last preserve_recent_turns positions
OldPayloads ==
    {i \in ResponsesBefore \cup CallsBefore :
        i <= Len(before) - config.preserve_recent_turns}

\* C21: with tool_aware_retention on and preserve_recent_tools = n > 0 the n
\* most recent tool responses survive prune_unified_tool_responses wherever
\* they sit; only when there are fewer than n tool responses are the most
\* recent call-bearing messages retained too, up to n retained messages in
\* all; with tool_aware_retention off or n = 0 no old tool payload survives.
C21_ToolAwareRetention ==
    lastOp = "prune" =>
        IF config.tool_aware_retention /\ config.preserve_recent_tools > 0
        THEN LET n == config.preserve_recent_tools
                 short == n - Cardinality(ResponsesBefore)
             IN /\ \A i \in MostRecent(ResponsesBefore, n) : ~Evicted(i)
                /\ short > 0 => \A i \in MostRecent(CallsBefore, short) : ~Evicted(i)
                /\ \A i \in OldPayloads \cap CallsBefore :
                      ~Evicted(i) => (short > 0 /\ i \in MostRecent(CallsBefore, short))
                /\ \A i \in OldPayloads \cap ResponsesBefore :
                      ~Evicted(i) => i \in MostRecent(ResponsesBefore, n)
                /\ Cardinality({i \in OldPayloads : ~Evicted(i)}) <= n
        ELSE \A i \in OldPayloads : Evicted(i)

\* n = 2 with a single tool response: it survives together with the youngest
\* call-bearing message, while an older call-bearing message is removed
C21_Witness ==
    /\ lastOp = "prune"
    /\ config.tool_aware_retention /\ config.preserve_recent_tools = 2
    /\ Cardinality(ResponsesBefore) = 1
    /\ ResponsesBefore \subseteq OldPayloads
    /\ \E i, j \in OldPayloads \cap CallsBefore :
          i < j /\ Evicted(i) /\ ~Evicted(j)

\* C22: apply_aggressive_trim_unified keeps exactly the last K messages,
\* K = min(clamp(preserve_recent_turns, MIN_PRESERVE_RECENT_TURNS,
\* AGGRESSIVE_PRESERVE_RECENT_TURNS), len), unchanged and in order, drops the
\* prefix before them and returns len - K.
C22_AggressiveKeepsLastK ==
    lastOp = "aggressive" =>
        LET len == Len(before)
            p == config.preserve_recent_turns
            clamped == IF p < MIN_PRESERVE_RECENT_TURNS
                       THEN MIN_PRESERVE_RECENT_TURNS
                       ELSE IF p > AGGRESSIVE_PRESERVE_RECENT_TURNS
                            THEN AGGRESSIVE_PRESERVE_RECENT_TURNS
                            ELSE p
            K == IF clamped < len THEN clamped ELSE len
        IN /\ Len(history) = K
           /\ \A k \in 1..K : history[k] = before[len - K + k]
           /\ removed = len - K

\* a history of AGGRESSIVE_PRESERVE_RECENT_TURNS + 1 messages loses exactly
\* its first message under a larger preserve_recent_turns
C22_Witness ==
    /\ lastOp = "aggressive"
    /\ config.preserve_recent_turns > AGGRESSIVE_PRESERVE_RECENT_TURNS
    /\ Len(before) = AGGRESSIVE_PRESERVE_RECENT_TURNS + 1
    /\ removed = 1
    /\ history = Tail(before)

\* the early region and the preserved tail (without the last message) of the
\* history the last call was given
EarlyBefore ==
    1..(IF config.preserve_recent_turns > Len(before) THEN 0
        ELSE Len(before) - config.preserve_recent_turns)
TailBefore == ((1..Len(before)) \ EarlyBefore) \ {Len(before)}

\* C32: enforce_unified_context_window evicts a message of the preserved
\* tail [len - preserve_recent_turns, len - 1) only if every message of the
\* early region [0, len - preserve_recent_turns) is evicted and the total
\* without the early region is still above max_tokens; inside the tail the
\* order (score ascending, index ascending) applies as well.
C32_TailEvictedLast ==
    lastOp = "enforce" =>
        \A i \in TailBefore :
            Evicted(i) =>
                /\ \A j \in EarlyBefore : Evicted(j)
                /\ TotalTokens(before)
                     - TotalTokens(SubSeq(before, 1, Cardinality(EarlyBefore)))
                       > config.max_tokens
                /\ \A j \in TailBefore :
                      (\/ ScoresBefore[j] < ScoresBefore[i]
                       \/ (ScoresBefore[j] = ScoresBefore[i] /\ j < i))
                          => Evicted(j)

\* the early region was emptied and a message of the preserved tail had to
\* go too, while the budget allowed the rest to stay
C32_Witness ==
    /\ lastOp = "enforce"
    /\ config.max_tokens > 0
    /\ EarlyBefore # {}
    /\ \E i \in TailBefore : Evicted(i)
    /\ TotalTokens(history) <= config.max_tokens
    /\ Len(history) >= 2

\* C39: each strategy is idempotent: applied a second time with the same
\* config (and analyzer) directly after the first application,
\* enforce_unified_context_window, prune_unified_tool_responses and
\* apply_aggressive_trim_unified remove nothing and return 0.
C39_StrategiesIdempotent ==
    /\ lastOp = "enforce" =>
          /\ enforce_unified_context_window(history, config, analyzer) = history
          /\ EnforceRemovalSet(history, config, analyzer) = {}
    /\ lastOp = "prune" =>
          /\ prune_unified_tool_responses(history, config) = history
          /\ prune_removed(history, config) = 0
    \* apply_aggressive_trim_unified returns the length of the prefix it drops
    /\ lastOp = "aggressive" =>
          apply_aggressive_trim_unified(history, config) = history

\* a prune call removed a payload and left another old payload, which the
\* retention set protects, in front of the preserved positions
C39_Witness ==
    /\ lastOp = "prune"
    /\ removed > 0
    /\ \E k \in 1..(Len(history) - config.preserve_recent_turns) :
          is_tool_response(history[k]) \/ has_tool_calls(history[k])

\* values of the u8 field trim_to_percent below, inside and above the range
\* target_tokens clamps it to
PercentValues == {0, 60, 75, 90, 100, 255}

\* C40: trim_to_percent does not influence enforce_unified_context_window:
\* for every history, a config that differs from the one used only in
\* trim_to_percent gives the same surviving history and the same removed
\* count.
C40_PercentHasNoInfluence ==
    lastOp = "enforce" =>
        \A pct \in PercentValues :
            LET other == [config EXCEPT !.trim_to_percent = pct]
            IN /\ enforce_unified_context_window(before, other, analyzer) = history
               /\ Cardinality(EnforceRemovalSet(before, other, analyzer)) = removed

\* eviction stopped between the lowest target (MIN_TRIM_RATIO_PERCENT of
\* max_tokens) and max_tokens, with a candidate of the early region left
C40_Witness ==
    /\ lastOp = "enforce"
    /\ removed > 0
    /\ config.trim_to_percent < MIN_TRIM_RATIO_PERCENT
    /\ TotalTokens(history) <= config.max_tokens
    /\ TotalTokens(history) > target_tokens(config)
    /\ \E j \in EarlyBefore : ~Evicted(j)

\* the last generate call went through the cache logic for key k
Keyed(k) ==
    /\ lastCall.kind \in {"hit", "expired", "miss"}
    /\ generate_cache_key(deserialize_request(lastCall.text).v) = k

\* the last call found an entry for its key that was older than ttl
FoundExpired ==
    \E k \in DOMAIN lastCall.pre :
        Keyed(k) /\ lastCall.at - lastCall.pre[k].timestamp >= llmConfig.ttl

\* the entries the last call removed, with the timestamps they had
EvictedEntries ==
    {[key |-> k, timestamp |-> lastCall.pre[k].timestamp] :
        k \in {x \in DOMAIN lastCall.pre : x \notin DOMAIN llmCache /\ ~Keyed(x)}}
      \cup {[key |-> k, timestamp |-> lastCall.at] :
              k \in {x \in 1..MaxBodies :
                       Keyed(x) /\ lastCall.kind = "miss" /\ lastCall.ok
                       /\ x \notin DOMAIN llmCache}}

\* the cache never holds more than max_entries entries when a call returns
CacheBounded ==
    (llmConfig.enabled /\ llmPc = "ready")
        => Cardinality(DOMAIN llmCache) <= llmConfig.max_entries

\* an evicted entry is no younger than any entry kept, and a hit leaves the
\* cache, timestamps included, as it was
EvictsOldestFirst ==
    lastCall # NoCall =>
        /\ \A e \in EvictedEntries : \A k \in DOMAIN llmCache :
              e.timestamp <= llmCache[k].timestamp
        /\ lastCall.kind = "hit" => llmCache = lastCall.pre

\* an entry older than ttl is not served: the call returns what the inner
\* client answered, and the entry is replaced by the fresh answer or gone
ExpiredRefetched ==
    (lastCall # NoCall /\ FoundExpired) =>
        /\ llmPc = "ready"
        /\ lastCall.inner_called
        /\ \A k \in DOMAIN llmCache :
              Keyed(k) => llmCache[k].timestamp = lastCall.at

\* C34: with caching enabled, after any sequence of generate calls the cache
\* holds at most max_entries entries each time a call returns; eviction
\* removes the oldest insertion timestamps first, a hit not refreshing the
\* timestamp; and an entry older than ttl is never served but removed and
\* refetched.
C34_CacheBounded ==
    /\ CacheBounded
    /\ EvictsOldestFirst
    /\ ExpiredRefetched

\* whether the analyzer is consulted for the block at all: it is not blank,
\* its language is known from the hint or from detection, and it parses
Recognized(block) ==
    /\ ~block.blank
    /\ block.hint \in KnownHints \/ block.detectable
    /\ block.parses

\* the blocks of a message: the fenced ones, else its text as a whole
CodeBlocksOf(m) == IF m.blocks # <<>> THEN m.blocks ELSE <<m.text>>

\* the weight of the symbols of a block no deeper than max_structural_depth
RECURSIVE WeightsFrom(_, _)
WeightsFrom(block, i) ==
    IF i > Len(block.symbols) \/ ~block.extracts THEN 0
    ELSE (IF Cardinality({k \in 1..Len(block.symbols[i].scope) :
                            block.symbols[i].scope[k] # ""})
               <= config.max_structural_depth
          THEN SymbolWeight(block.symbols[i].kind) ELSE 0)
         + WeightsFrom(block, i + 1)

\* B: the sum over the non-empty recognized blocks of max(1, weights)
RECURSIVE StructuralFrom(_, _)
StructuralFrom(blocks, i) ==
    IF i > Len(blocks) THEN 0
    ELSE (IF Recognized(blocks[i]) THEN Max(1, WeightsFrom(blocks[i], 1)) ELSE 0)
         + StructuralFrom(blocks, i + 1)

\* the score as claimed: the bonuses are added for every message
ClaimedScore(m) ==
    IF ~config.semantic_compression \/ ~analyzer THEN 0
    ELSE Min(255,
             StructuralFrom(CodeBlocksOf(m), 1)
               + (IF is_tool_response(m) \/ has_tool_calls(m) THEN 2 ELSE 0)
               + (IF m.origin_tool /\ config.tool_aware_retention THEN 1 ELSE 0))

\* C33: the score of a message is min(255, B + 2 * [tool response or carries
\* tool calls] + 1 * [origin_tool set and tool_aware_retention on]), B the
\* sum over the non-empty recognized code blocks of max(1, sum of the weights
\* of the symbols no deeper than max_structural_depth); the bonuses apply to
\* every message, so a tool response without recognized code scores 2, or 3
\* with origin_tool under tool-aware retention; with compression off or no
\* analyzer every score is 0.
C33_SemanticScore ==
    (lastOp = "enforce" /\ semantic_scores # <<>>) =>
        \A i \in 1..Len(before) : semantic_scores[i] = ClaimedScore(before[i])

\* C38: the score cache does not change trimming: a call of
\* enforce_unified_context_window with the cache of the session leaves the
\* history the call without a cache leaves, also when two messages differ
\* only in origin_tool and when tool_aware_retention or max_structural_depth
\* differ between the call that filled the cache and the current one.
C38_CacheIsTransparent ==
    lastOp = "enforce_cached" =>
        /\ history = enforce_unified_context_window(before, config, analyzer)
        /\ removed = Cardinality(EnforceRemovalSet(before, config, analyzer))

====
